---- MODULE Spec2Model ----
(***************************************************************************)
(* Model of the time-series code of mm-fast (src/api).                     *)
(*                                                                         *)
(*  - the run-length codec get_id_series / get_time_series_for_id_series   *)
(*    (measurement_processing.py), specification SpecCodec;                *)
(*  - the stream loaders load_timeseries, get_simple_ts_from_pickle_file,  *)
(*    get_pause_ts_for_measurement and the extraction                     *)
(*    extract_dynamic_beacon_data, specifications SpecLoad / SpecAvail /   *)
(*    SpecExtract.                                                         *)
(*                                                                         *)
(* numpy arrays are sequences.  Array indices and timestamps keep the      *)
(* code's 0-based values; a[i] of the code is a[i + 1] here.               *)
(***************************************************************************)
EXTENDS Integers, Sequences, FiniteSets, TLC

VARIABLES
    \* ---- codec registers (SpecCodec) ----
    given,            \* the arguments the behaviour started from
    calls,            \* the codec calls made so far, in order
    uuid_timeseries,  \* the dense series in hand (argument / result)
    id_series,        \* the compressed ids in hand
    timestamps,       \* the start timestamps in hand
    raised,           \* the exception the last call raised, or "none"
    \* ---- one measurement directory and a loader call (SpecLoad, SpecAvail) ----
    available_measurement_files,  \* process_metadata.json: the advertised names
    disk,             \* the measurement directory: file name -> container data
    call,             \* the loader call made, or the idle record
    opened,           \* the container files opened by the call, in order
    returned,         \* what the call returned
    load_raised,      \* the exception the call raised, or "none"
    \* ---- the web service: validate_and_process (SpecService) ----
    measurements,     \* data.measurements[process_uuid]: the entries, in order
    threads,          \* the download thread of each measurement
    dirs,             \* the files in each measurement's directory
    pc,               \* where the request handler is
    processing,       \* the measurements process_measurement was called for, in order
    batch_logs,       \* the log lines process_data has collected
    response,         \* the HTTP status answered, or "none"
    \* ---- the MMLabsData object and the CLI driver (SpecSubscribers, SpecCli) ----
    selected_process_subscribers,      \* data.selected_process_subscribers
    selected_measurement_subscribers,  \* data.selected_measurement_subscribers
    selected_process,      \* data.selected_process
    selected_measurement,  \* data.selected_measurement
    notified,         \* the update_selected_* calls the last call made, in order
    last_op,          \* the last call made on the object
    measurements_df   \* extract_data: the listing list_measurements returned

codecVars == <<given, calls, uuid_timeseries, id_series, timestamps, raised>>
loadVars == <<available_measurement_files, disk, call, opened, returned, load_raised>>
svcVars == <<measurements, threads, dirs, pc, processing, batch_logs, response>>
dataVars == <<selected_process_subscribers, selected_measurement_subscribers,
              selected_process, selected_measurement, notified, last_op, measurements_df>>
vars == <<given, calls, uuid_timeseries, id_series, timestamps, raised,
          available_measurement_files, disk, call, opened, returned, load_raised,
          measurements, threads, dirs, pc, processing, batch_logs, response,
          selected_process_subscribers, selected_measurement_subscribers,
          selected_process, selected_measurement, notified, last_op, measurements_df>>

(***************************************************************************)
(* Bounds and input domains.                                               *)
(***************************************************************************)
MaxLen == 5          \* longest dense series, largest timestamp (codec)
MaxRuns == 2         \* most ids of a hand-made change-point series
MaxCalls == 2        \* codec calls per behaviour

Values == {5, 7}     \* the symbols of a dense series (codec)

\* all sequences over S of length lo..hi
SeqsBetween(S, lo, hi) == UNION {[1..n -> S] : n \in lo..hi}

Min(a, b) == IF a <= b THEN a ELSE b

(***************************************************************************)
(* get_id_series: measurement_processing.py 89-120                         *)
(***************************************************************************)
\* numpy's nan, a float that is no symbol of Values
NaN == -1

\* x is nan; told by the printed form, which samples of every dtype have
IsNaN(x) == ToString(x) = ToString(NaN)

\* x != y of numpy on two samples of one array: nan differs from everything,
\* itself included (measurement_processing.py 111)
np_not_equal(x, y) == x # y \/ IsNaN(x)

\* np.where(uuid_timeseries[:-1] != uuid_timeseries[1:])[0], from index j on:
\* the 0-based indices j <= len-2 with a[j] != a[j+1], increasing.
RECURSIVE WhereChanged(_, _)
WhereChanged(a, j) ==
    IF j > Len(a) - 2 THEN <<>>
    ELSE (IF np_not_equal(a[j + 1], a[j + 2]) THEN <<j>> ELSE <<>>)
            \o WhereChanged(a, j + 1)

\* a mutant: the "+ 1" of line 113 forgotten
ChangeTimestampsNoShift(a) == <<0>> \o WhereChanged(a, 0)

\* timestamps after lines 110-113: [0] ++ where(...), entries 1.. increased by 1
ChangeTimestamps(a) ==
    LET t0 == <<0>> \o WhereChanged(a, 0)
    IN  [k \in 1..Len(t0) |-> IF k = 1 THEN t0[k] ELSE t0[k] + 1]

\* a mutant: the final timestamp appended whatever the flag says
AppendFinalAlways(ts, a, append_final_timestamp) == Append(ts, Len(a))

\* a mutant: the final timestamp appended is the last index, len - 1
AppendFinalLastIndex(ts, a, append_final_timestamp) ==
    IF append_final_timestamp THEN Append(ts, Len(a) - 1) ELSE ts

\* lines 116-118
AppendFinal(ts, a, append_final_timestamp) ==
    IF append_final_timestamp THEN Append(ts, Len(a)) ELSE ts

\* a mutant: the emptiness check of lines 105-107 dropped
IsEmptyNever(a) == FALSE

\* line 105
IsEmpty(a) == Len(a) = 0

\* a mutant: the ids read one sample early, a[timestamps - 1] (index -1 is the last)
FancyIndexEarly(a, ts) ==
    [raised |-> "none",
     value |-> [k \in 1..Len(ts) |-> IF ts[k] = 0 THEN a[Len(a)] ELSE a[ts[k]]]]

\* line 114, uuid_timeseries[timestamps]: an index past the end raises IndexError
FancyIndex(a, ts) ==
    IF \E k \in 1..Len(ts) : ts[k] >= Len(a)
    THEN [raised |-> "IndexError", value |-> <<>>]
    ELSE [raised |-> "none", value |-> [k \in 1..Len(ts) |-> a[ts[k] + 1]]]

\* the outcome of get_id_series(a, append_final_timestamp)
get_id_series(a, append_final_timestamp) ==
    IF IsEmpty(a)
    THEN [raised |-> "EmptyTimeSeriesException", id_series |-> <<>>, timestamps |-> <<>>]
    ELSE LET ts == ChangeTimestamps(a)
             ids == FancyIndex(a, ts)
         IN  IF ids.raised # "none"
             THEN [raised |-> ids.raised, id_series |-> <<>>, timestamps |-> <<>>]
             ELSE [raised |-> "none",
                   id_series |-> ids.value,
                   timestamps |-> AppendFinal(ts, a, append_final_timestamp)]

(***************************************************************************)
(* get_time_series_for_id_series: measurement_processing.py 123-148        *)
(***************************************************************************)
\* Python's a[i - 1] for i >= 0 on an array of length n: index -1 is the last
PyIndex(i, n) == IF i < 0 THEN n + i ELSE i

\* a mutant: the slice starts one cell late
SliceCellsLate(lo, hi, n) == {p \in 0..(n - 1) : lo < p /\ p < hi}

\* the cells (0-based) a slice assignment buf[lo:hi] = v writes in a buffer
\* of n cells (lo, hi >= 0)
SliceCells(lo, hi, n) == {p \in 0..(n - 1) : lo <= p /\ p < hi}

\* The loop of lines 145-146 from iteration i on.  w is the written part of the
\* np.empty buffer (cell -> value).  Iteration i reads id_series[i - 1], which
\* raises IndexError when i - 1 is past the end of id_series.
RECURSIVE FillLoop(_, _, _, _)
FillLoop(ids, ts, w, i) ==
    IF i > Len(ts) - 1 THEN [raised |-> "none", written |-> w]
    ELSE IF i - 1 >= Len(ids) THEN [raised |-> "IndexError", written |-> w]
    ELSE LET n == ts[Len(ts)]
             lo == ts[PyIndex(i - 1, Len(ts)) + 1]
             hi == ts[i + 1]
             v == ids[PyIndex(i - 1, Len(ids)) + 1]
             cells == SliceCells(lo, hi, n)
         IN  FillLoop(ids, ts,
                      [p \in (DOMAIN w) \cup cells |-> IF p \in cells THEN v ELSE w[p]],
                      i + 1)

\* a mutant of the edge case of lines 140-141: never taken
EdgeCaseEmptyNever(ids, ts) == FALSE

\* lines 140-141
EdgeCaseEmpty(ids, ts) == Len(ts) = 0 \/ Len(ids) = 0

\* The outcome of get_time_series_for_id_series(ids, ts).  `junk` is the
\* content np.empty left in the cells the loop never writes.
get_time_series_for_id_series(ids, ts, junk) ==
    IF EdgeCaseEmpty(ids, ts) THEN [raised |-> "none", value |-> <<>>]
    ELSE LET r == FillLoop(ids, ts, <<>>, 0)
             n == ts[Len(ts)]
         IN  IF r.raised # "none" THEN [raised |-> r.raised, value |-> <<>>]
             ELSE [raised |-> "none",
                   value |-> [k \in 1..n |-> IF (k - 1) \in DOMAIN r.written
                                              THEN r.written[k - 1]
                                              ELSE junk[k - 1]]]

\* the cells of the result that np.empty leaves uninitialised
Unwritten(ids, ts) ==
    IF EdgeCaseEmpty(ids, ts) THEN {}
    ELSE LET r == FillLoop(ids, ts, <<>>, 0)
         IN  IF r.raised # "none" THEN {}
             ELSE {p \in 0..(ts[Len(ts)] - 1) : p \notin DOMAIN r.written}

(***************************************************************************)
(* File names.  A name is the sequence of its characters, so that the      *)
(* suffix test and the slice x[:-7] of line 56 are computed, not assumed.  *)
(***************************************************************************)
PickleSuffix == <<".", "p", "i", "c", "k", "l", "e">>
PickleSuffixLen == 7

RegionTsData == <<"r", "e", "g", "i", "o", "n", "_", "t", "s", "_", "d", "a", "t", "a">>
PauseData == <<"p", "a", "u", "s", "e", "_", "d", "a", "t", "a">>
StepCounterData ==
    <<"s", "t", "e", "p", "_", "c", "o", "u", "n", "t", "e", "r", "_", "d", "a", "t", "a">>
DynBeaconData ==
    <<"d", "y", "n", "_", "b", "e", "a", "c", "o", "n", "_", "u", "s", "a", "g", "e", "_",
      "c", "l", "o", "s", "e", "n", "e", "s", "s", "_", "d", "a", "t", "a">>

Range(f) == {f[k] : k \in DOMAIN f}

\* str.endswith
EndsWith(x, suffix) ==
    /\ Len(x) >= Len(suffix)
    /\ SubSeq(x, Len(x) - Len(suffix) + 1, Len(x)) = suffix

\* a mutant: the last seven characters cut off whatever they are
StripPickleAlways(x) == SubSeq(x, 1, Len(x) - PickleSuffixLen)

\* line 56: x[:-7] if x.endswith('.pickle') else x
StripPickle(x) ==
    IF EndsWith(x, PickleSuffix) THEN SubSeq(x, 1, Len(x) - PickleSuffixLen) ELSE x

\* get_available_ts_for_measurement: measurement_processing.py 35-56
get_available_ts_for_measurement(available_ts) ==
    [k \in 1..Len(available_ts) |-> StripPickle(available_ts[k])]

(***************************************************************************)
(* Stream loaders: measurement_processing.py 58-86, 151-192, 420-449.      *)
(* A loader's outcome is [raised, value, opened]: the exception or "none", *)
(* the returned array(s), and the container files it opened, in order.     *)
(* The containers read here hold the output of get_id_series(.., True), so *)
(* decoding them writes every cell of the np.empty buffer.                 *)
(***************************************************************************)
NoJunk == <<>>

\* h5py.File(file_path, 'r') on the measurement directory d, then data[...]
\* decoded by get_time_series_for_id_series (lines 74-77, 161-165)
OpenAndDecode(d, name) ==
    IF name \notin DOMAIN d
    THEN [raised |-> "FileNotFoundError", value |-> <<>>, opened |-> <<name>>]
    ELSE LET r == get_time_series_for_id_series(d[name].id_series, d[name].timestamps, NoJunk)
         IN  [raised |-> r.raised, value |-> r.value, opened |-> <<name>>]

\* get_pause_ts_for_measurement: lines 151-166
get_pause_ts_for_measurement(d) == OpenAndDecode(d, PauseData)

\* a[keep] for a boolean array keep: the entries of a where keep is True, in order
RECURSIVE Compress(_, _)
Compress(a, keep) ==
    IF Len(a) = 0 THEN <<>>
    ELSE (IF Head(keep) THEN <<Head(a)>> ELSE <<>>) \o Compress(Tail(a), Tail(keep))

\* a mutant: the entries where pause IS True are kept
MaskOutInverted(a, pause_ts) ==
    IF Len(pause_ts) # Len(a) THEN [raised |-> "IndexError", value |-> <<>>]
    ELSE [raised |-> "none", value |-> Compress(a, pause_ts)]

\* ts[~pause_ts]: numpy raises IndexError when the mask and the array differ in length
MaskOut(a, pause_ts) ==
    IF Len(pause_ts) # Len(a) THEN [raised |-> "IndexError", value |-> <<>>]
    ELSE [raised |-> "none",
          value |-> Compress(a, [k \in 1..Len(pause_ts) |-> ~pause_ts[k]])]

\* a mutant: no truncation to the common length
ShortenNot(a, min_length) == a

\* a[:min_length]
Shorten(a, min_length) == SubSeq(a, 1, min_length)

\* lines 81-85 (and 187-191, 442-448): shorten both to the min length, keep the
\* entries where pause is not True
RemovePauses(ts, pause_ts) ==
    LET min_length == Min(Len(pause_ts), Len(ts))
    IN  MaskOut(Shorten(ts, min_length), Shorten(pause_ts, min_length))

\* lines 73-86 of load_timeseries, the same statements as lines 178-192 of
\* get_simple_ts_from_pickle_file
ReadSeries(d, target_ts_name, remove_pauses) ==
    LET f == OpenAndDecode(d, target_ts_name)
    IN  IF f.raised # "none" \/ ~remove_pauses THEN f
        ELSE LET p == get_pause_ts_for_measurement(d)
                 r == RemovePauses(f.value, p.value)
             IN  IF p.raised # "none"
                 THEN [raised |-> p.raised, value |-> <<>>, opened |-> f.opened \o p.opened]
                 ELSE [raised |-> r.raised, value |-> r.value, opened |-> f.opened \o p.opened]

\* get_simple_ts_from_pickle_file: lines 169-192
get_simple_ts_from_pickle_file(d, target_ts_name, remove_pauses) ==
    ReadSeries(d, target_ts_name, remove_pauses)

\* a mutant: the advertised names compared without stripping the suffix
IsAvailableUnstripped(available_ts, target_ts_name) ==
    target_ts_name \in Range(available_ts)

\* lines 69-70
IsAvailable(available_ts, target_ts_name) ==
    target_ts_name \in Range(get_available_ts_for_measurement(available_ts))

\* load_timeseries: lines 58-86
load_timeseries(d, available_ts, target_ts_name, remove_pauses) ==
    IF ~IsAvailable(available_ts, target_ts_name)
    THEN [raised |-> "Exception: not included in measurement", value |-> <<>>,
          opened |-> <<>>]
    ELSE ReadSeries(d, target_ts_name, remove_pauses)

\* ndarray.astype(str): every entry replaced by its string
RECURSIVE AsTypeStr(_)
AsTypeStr(a) == IF Len(a) = 0 THEN <<>> ELSE <<ToString(Head(a))>> \o AsTypeStr(Tail(a))

\* get_region_ts_for_measurement: lines 195-207
get_region_ts_for_measurement(d, remove_pauses) ==
    LET r == get_simple_ts_from_pickle_file(d, RegionTsData, remove_pauses)
    IN  [raised |-> r.raised, value |-> AsTypeStr(r.value), opened |-> r.opened]

\* get_dynamic_beacon_data_for_measurement: lines 420-449.  The arrays are
\* timestamps x beacons: sequences of rows.
get_dynamic_beacon_data_for_measurement(d, remove_pauses) ==
    IF DynBeaconData \notin DOMAIN d
    THEN [raised |-> "FileNotFoundError", value |-> <<>>, opened |-> <<DynBeaconData>>]
    ELSE LET data == d[DynBeaconData]
             whole == [closeness_arr |-> data.closeness_arr,
                       usage_arr |-> data.usage_arr, uuids |-> data.uuids]
         IN  IF ~remove_pauses
             THEN [raised |-> "none", value |-> whole, opened |-> <<DynBeaconData>>]
             ELSE LET p == get_pause_ts_for_measurement(d)
                      min_length == Min(Len(p.value), Len(data.closeness_arr))
                      pause_ts == Shorten(p.value, min_length)
                      c == MaskOut(Shorten(data.closeness_arr, min_length), pause_ts)
                      u == MaskOut(Shorten(data.usage_arr, min_length), pause_ts)
                      o == <<DynBeaconData>> \o p.opened
                  IN  IF p.raised # "none"
                      THEN [raised |-> p.raised, value |-> <<>>, opened |-> o]
                      ELSE IF c.raised # "none" \/ u.raised # "none"
                      THEN [raised |-> "IndexError", value |-> <<>>, opened |-> o]
                      ELSE [raised |-> "none",
                            value |-> [closeness_arr |-> c.value, usage_arr |-> u.value,
                                       uuids |-> data.uuids],
                            opened |-> o]

ShiftData == <<"s", "h", "i", "f", "t", "_", "d", "a", "t", "a">>
ForkHeightLvlData ==
    <<"f", "o", "r", "k", "_", "h", "e", "i", "g", "h", "t", "_", "l", "v", "l", "_",
      "d", "a", "t", "a">>

\* get_shift_data_for_measurement: lines 356-387
get_shift_data_for_measurement(d, remove_pauses) ==
    IF ShiftData \notin DOMAIN d
    THEN [raised |-> "FileNotFoundError", value |-> <<>>, opened |-> <<ShiftData>>]
    ELSE LET data == d[ShiftData]
             whole == [shift_arr |-> data.shift_arr, shift_pause_arr |-> data.shift_pause_arr]
         IN  IF ~remove_pauses
             THEN [raised |-> "none", value |-> whole, opened |-> <<ShiftData>>]
             ELSE LET p == get_pause_ts_for_measurement(d)
                      min_length == Min(Len(p.value), Len(data.shift_arr))
                      pause_ts == Shorten(p.value, min_length)
                      a == MaskOut(Shorten(data.shift_arr, min_length), pause_ts)
                      b == MaskOut(Shorten(data.shift_pause_arr, min_length), pause_ts)
                      o == <<ShiftData>> \o p.opened
                  IN  IF p.raised # "none"
                      THEN [raised |-> p.raised, value |-> <<>>, opened |-> o]
                      ELSE IF a.raised # "none" \/ b.raised # "none"
                      THEN [raised |-> "IndexError", value |-> <<>>, opened |-> o]
                      ELSE [raised |-> "none",
                            value |-> [shift_arr |-> a.value, shift_pause_arr |-> b.value],
                            opened |-> o]

\* get_fork_height_data_for_measurement: lines 452-488.  The arrays are
\* shortened to min_length, the pause mask is not (lines 479-486).
get_fork_height_data_for_measurement(d, remove_pauses) ==
    IF ForkHeightLvlData \notin DOMAIN d
    THEN [raised |-> "FileNotFoundError", value |-> <<>>, opened |-> <<ForkHeightLvlData>>]
    ELSE LET data == d[ForkHeightLvlData]
             whole == [fork_lvl_arr |-> data.lvl_arr,
                       fork_target_lvl_arr |-> data.lvl_movement_arr]
         IN  IF ~remove_pauses
             THEN [raised |-> "none", value |-> whole, opened |-> <<ForkHeightLvlData>>]
             ELSE LET p == get_pause_ts_for_measurement(d)
                      min_length == Min(Len(p.value), Len(data.lvl_arr))
                      a == MaskOut(Shorten(data.lvl_arr, min_length), p.value)
                      b == MaskOut(Shorten(data.lvl_movement_arr, min_length), p.value)
                      o == <<ForkHeightLvlData>> \o p.opened
                  IN  IF p.raised # "none"
                      THEN [raised |-> p.raised, value |-> <<>>, opened |-> o]
                      ELSE IF a.raised # "none" \/ b.raised # "none"
                      THEN [raised |-> "IndexError", value |-> <<>>, opened |-> o]
                      ELSE [raised |-> "none",
                            value |-> [fork_lvl_arr |-> a.value,
                                       fork_target_lvl_arr |-> b.value],
                            opened |-> o]

\* The rows written for beacon column b (extract_data.py 179-196), from sample
\* i on: every sample but the last, kept when the beacon is close or in use.
\* Times are in samples of 10 ms after base_seconds.
RECURSIVE BeaconRows(_, _, _, _)
BeaconRows(closeness_arr, usage_arr, b, i) ==
    IF i > Len(closeness_arr) - 2 THEN <<>>
    ELSE (IF closeness_arr[i + 1][b] = 1 \/ usage_arr[i + 1][b] = 1
          THEN <<[start |-> i, end |-> i + 1,
                  closeness |-> closeness_arr[i + 1][b], usage |-> usage_arr[i + 1][b]]>>
          ELSE <<>>)
         \o BeaconRows(closeness_arr, usage_arr, b, i + 1)

\* extract_data.py 183-209: one table per beacon, from beacon index b on
RECURSIVE BeaconTables(_, _, _, _)
BeaconTables(closeness_arr, usage_arr, uuids, b) ==
    IF b > Len(uuids) THEN <<>>
    ELSE <<BeaconRows(closeness_arr, usage_arr, b, 0)>>
         \o BeaconTables(closeness_arr, usage_arr, uuids, b + 1)

\* extract_data.py 167-172: the line logged for an exception of the two loads
LoadFailure(exception) ==
    IF exception = "FileNotFoundError" THEN "Required data file not found"
    ELSE "Error retrieving data"

\* extract_dynamic_beacon_data: extract_data.py 151-215, for a measurement
\* directory that exists.  Outcome: the line logged, the files opened and the
\* rows written per beacon.
extract_dynamic_beacon_data(d) ==
    LET region == get_region_ts_for_measurement(d, TRUE)
        beacon == get_dynamic_beacon_data_for_measurement(d, TRUE)
    IN  IF region.raised # "none"
        THEN [logged |-> LoadFailure(region.raised), opened |-> region.opened,
              csv |-> <<>>]
        ELSE IF beacon.raised # "none"
        THEN [logged |-> LoadFailure(beacon.raised),
              opened |-> region.opened \o beacon.opened, csv |-> <<>>]
        ELSE [logged |-> "completed successfully",
              opened |-> region.opened \o beacon.opened,
              csv |-> BeaconTables(beacon.value.closeness_arr, beacon.value.usage_arr,
                                   beacon.value.uuids, 1)]

(***************************************************************************)
(* SpecCodec: the codec applied to bounded inputs.                         *)
(***************************************************************************)
NoCall == [fn |-> "none"]

\* the loader variables while only the codec runs
LoadIdle ==
    /\ available_measurement_files = <<>>
    /\ disk = <<>>
    /\ call = NoCall
    /\ opened = <<>>
    /\ returned = <<>>
    /\ load_raised = "none"

\* the service variables while no request is handled
NoRequest == [at |-> "none", chunk |-> 0, i |-> 0]

ServiceIdle ==
    /\ measurements = <<>>
    /\ threads = <<>>
    /\ dirs = <<>>
    /\ pc = NoRequest
    /\ processing = <<>>
    /\ batch_logs = <<>>
    /\ response = "none"

\* Python's None
None == "None"

NoOp == [op |-> "none"]

NotListed == [listed |-> FALSE, rows |-> <<>>]

\* the MMLabsData object as its constructor leaves it (data.py 42-47), no
\* listing made
DataIdle ==
    /\ selected_process_subscribers = {}
    /\ selected_measurement_subscribers = {}
    /\ selected_process = None
    /\ selected_measurement = None
    /\ notified = <<>>
    /\ last_op = NoOp
    /\ measurements_df = NotListed

DenseInputs == SeqsBetween(Values, 0, MaxLen)

\* hand-made change-point series, well formed or not
CpsInputs ==
    {[id_series |-> ids, timestamps |-> ts] :
        ids \in SeqsBetween(Values, 0, MaxRuns),
        ts \in SeqsBetween(0..MaxLen, 0, MaxRuns + 1)}

InitCodec ==
    /\ ServiceIdle
    /\ DataIdle
    /\ \/ \E d \in DenseInputs :
             /\ given = [kind |-> "dense", dense |-> d, id_series |-> <<>>, timestamps |-> <<>>]
             /\ uuid_timeseries = d
             /\ id_series = <<>>
             /\ timestamps = <<>>
       \/ \E c \in CpsInputs :
             /\ given = [kind |-> "cps", dense |-> <<>>, id_series |-> c.id_series,
                         timestamps |-> c.timestamps]
             /\ uuid_timeseries = <<>>
             /\ id_series = c.id_series
             /\ timestamps = c.timestamps
    /\ calls = <<>>
    /\ raised = "none"
    /\ LoadIdle

\* what the registers hold: a dense series or a change-point series
InHand ==
    IF calls = <<>> THEN given.kind
    ELSE IF calls[Len(calls)].fn = "get_id_series" THEN "cps" ELSE "dense"

\* get_id_series(uuid_timeseries, append_final_timestamp) on the series in hand
CallGetIdSeries ==
    /\ raised = "none"
    /\ Len(calls) < MaxCalls
    /\ InHand = "dense"
    /\ \E append_final_timestamp \in BOOLEAN :
          \E r \in {get_id_series(uuid_timeseries, append_final_timestamp)} :
              /\ calls' = Append(calls, [fn |-> "get_id_series",
                                         append_final_timestamp |-> append_final_timestamp])
              /\ raised' = r.raised
              /\ id_series' = r.id_series
              /\ timestamps' = r.timestamps
    /\ UNCHANGED <<given, uuid_timeseries>>
    /\ UNCHANGED loadVars
    /\ UNCHANGED svcVars
    /\ UNCHANGED dataVars

\* get_time_series_for_id_series(id_series, timestamps) on the series in hand
CallGetTimeSeries ==
    /\ raised = "none"
    /\ Len(calls) < MaxCalls
    /\ InHand = "cps"
    /\ \E junk \in [Unwritten(id_series, timestamps) -> Values] :
          \E r \in {get_time_series_for_id_series(id_series, timestamps, junk)} :
              /\ calls' = Append(calls, [fn |-> "get_time_series_for_id_series",
                                         append_final_timestamp |-> FALSE])
              /\ raised' = r.raised
              /\ uuid_timeseries' = r.value
    /\ UNCHANGED <<given, id_series, timestamps>>
    /\ UNCHANGED loadVars
    /\ UNCHANGED svcVars
    /\ UNCHANGED dataVars

NextCodec == CallGetIdSeries \/ CallGetTimeSeries

SpecCodec == InitCodec /\ [][NextCodec]_vars

\* SpecNaN: the codec on dense series of floats, nan among them (the walking
\* speed stream, measurement_processing.py 340-353)
InitNaN ==
    /\ ServiceIdle
    /\ DataIdle
    /\ \E d \in SeqsBetween(Values \cup {NaN}, 1, MaxLen) :
          /\ given = [kind |-> "dense", dense |-> d, id_series |-> <<>>, timestamps |-> <<>>]
          /\ uuid_timeseries = d
    /\ id_series = <<>>
    /\ timestamps = <<>>
    /\ calls = <<>>
    /\ raised = "none"
    /\ LoadIdle

SpecNaN == InitNaN /\ [][NextCodec]_vars

(***************************************************************************)
(* The second decoder, np.repeat(ids, np.diff(timestamps)) of              *)
(* process_measurement_data (extract_data.py 74-81): SpecDecoders.         *)
(***************************************************************************)
\* a mutant of np.diff: the later entry, nothing subtracted
np_diff_unsubtracted(a) == [k \in 1..(Len(a) - 1) |-> a[k + 1]]

\* np.diff(a): a[k + 1] - a[k]; empty for fewer than two entries
np_diff(a) == [k \in 1..(Len(a) - 1) |-> a[k + 1] - a[k]]

\* a[k] repeated count times
RepeatOne(v, count) == [j \in 1..count |-> v]

RECURSIVE RepeatFrom(_, _, _, _)
RepeatFrom(a, repeats, k, acc) ==
    IF k > Len(a) THEN acc
    ELSE RepeatFrom(a, repeats, k + 1,
                    acc \o RepeatOne(a[k], IF Len(repeats) = 1 THEN repeats[1]
                                            ELSE repeats[k]))

\* np.repeat(a, repeats): one count is broadcast, otherwise the counts must be
\* as many as the entries; a negative count is refused
np_repeat(a, repeats) ==
    IF Len(repeats) # 1 /\ Len(repeats) # Len(a)
    THEN [raised |-> "ValueError", value |-> <<>>]
    ELSE IF Len(a) > 0 /\ \E k \in DOMAIN repeats : repeats[k] < 0
    THEN [raised |-> "ValueError", value |-> <<>>]
    ELSE [raised |-> "none", value |-> RepeatFrom(a, repeats, 1, <<>>)]

\* np.repeat(region_ts, np.diff(region_timestamps)), extract_data.py 78
RepeatDecode(ids, ts) == np_repeat(ids, np_diff(ts))

\* np.repeat(ids, np.diff(timestamps)) on the series in hand
CallNpRepeat ==
    /\ raised = "none"
    /\ Len(calls) < MaxCalls
    /\ InHand = "cps"
    /\ \E r \in {RepeatDecode(id_series, timestamps)} :
           /\ calls' = Append(calls, [fn |-> "np.repeat", append_final_timestamp |-> FALSE])
           /\ raised' = r.raised
           /\ uuid_timeseries' = r.value
    /\ UNCHANGED <<given, id_series, timestamps>>
    /\ UNCHANGED loadVars
    /\ UNCHANGED svcVars
    /\ UNCHANGED dataVars

NextDecoders == CallGetIdSeries \/ CallGetTimeSeries \/ CallNpRepeat

SpecDecoders == InitCodec /\ [][NextDecoders]_vars

(***************************************************************************)
(* Claims about the codec (checked under SpecCodec).                       *)
(***************************************************************************)
Encoded(append) == [fn |-> "get_id_series", append_final_timestamp |-> append]
Decoded == [fn |-> "get_time_series_for_id_series", append_final_timestamp |-> FALSE]

StrictlyIncreasing(ts) == \A k \in 1..(Len(ts) - 1) : ts[k] < ts[k + 1]
ButLast(ts) == SubSeq(ts, 1, Len(ts) - 1)

\* the change points of a dense series d: the indices i > 0 with d[i] != d[i-1]
ChangePoints(d) == {i \in 1..(Len(d) - 1) : d[i + 1] # d[i]}
SetMax(S) == CHOOSE m \in S : \A x \in S : x <= m

\* the behaviour started from the non-empty dense series and made exactly these calls
FromDense(cs) == given.kind = "dense" /\ Len(given.dense) > 0 /\ calls = cs

\* C1 as stated: decoding the default encoding of a non-empty dense series d
\* returns exactly d.
C1_RoundTripDefault ==
    FromDense(<<Encoded(FALSE), Decoded>>)
        => raised = "none" /\ uuid_timeseries = given.dense

\* C1 amended: decoding the default encoding (no final timestamp appended) of a
\* non-empty dense series d returns exactly the samples of d before its last
\* change point: the first s samples, s the start of d's final run.  Decoding
\* the encoding made with append_final_timestamp=True returns exactly d.
C1_RoundTripDefaultDropsFinalRun ==
    /\ FromDense(<<Encoded(FALSE), Decoded>>)
        => /\ raised = "none"
           /\ uuid_timeseries =
                SubSeq(given.dense, 1, SetMax({0} \cup ChangePoints(given.dense)))
    /\ FromDense(<<Encoded(TRUE), Decoded>>)
        => raised = "none" /\ uuid_timeseries = given.dense

C1_Witness ==
    /\ FromDense(<<Encoded(FALSE), Decoded>>)
    /\ given.dense = <<5, 5, 5, 7, 7>>
    /\ uuid_timeseries = <<5, 5, 5>>

\* C2: for a non-empty dense series d, get_id_series returns starts = 0 followed
\* by every index i > 0 with d[i] != d[i-1], increasing, and ids[k] = d[starts[k]];
\* append_final_timestamp only appends len(d) to starts.  encode([5,5,5,7,7]) =
\* ([5,7], [0,3]).
C2_EncodeChangePoints ==
    (given.kind = "dense" /\ Len(given.dense) > 0 /\ Len(calls) = 1)
        => LET d == given.dense
               append == calls[1].append_final_timestamp
               starts == IF append THEN ButLast(timestamps) ELSE timestamps
           IN  /\ raised = "none"
               /\ Len(starts) >= 1 /\ starts[1] = 0
               /\ StrictlyIncreasing(starts)
               /\ {starts[k] : k \in 1..Len(starts)} = {0} \cup ChangePoints(d)
               /\ Len(id_series) = Len(starts)
               /\ \A k \in 1..Len(starts) : id_series[k] = d[starts[k] + 1]
               /\ append => /\ Len(timestamps) = Len(id_series) + 1
                            /\ timestamps[Len(timestamps)] = Len(d)
               /\ ~append => Len(timestamps) = Len(id_series)
               /\ (d = <<5, 5, 5, 7, 7>> /\ ~append)
                      => id_series = <<5, 7>> /\ timestamps = <<0, 3>>

C2_Witness ==
    /\ given.kind = "dense" /\ given.dense = <<5, 5, 5, 7, 7>>
    /\ calls = <<Encoded(FALSE)>>
    /\ id_series = <<5, 7>> /\ timestamps = <<0, 3>>

\* the hand-made series: ids, strictly increasing starts from 0 with as many
\* entries as ids, and a total length L as the final entry of timestamps
WellFormedWithLength ==
    /\ given.kind = "cps"
    /\ Len(given.id_series) >= 1
    /\ Len(given.timestamps) = Len(given.id_series) + 1
    /\ given.timestamps[1] = 0
    /\ StrictlyIncreasing(ButLast(given.timestamps))

\* C3: decoding ids with strictly increasing starts (starts[0] = 0) and total
\* length L yields exactly L samples, sample i being ids[k] for the largest k
\* with starts[k] <= i; ids [5,7], starts [0,3], L = 5 decode to [5,5,5,7,7].
C3_DecodeLargestStart ==
    (WellFormedWithLength /\ calls = <<Decoded>>)
        => LET starts == ButLast(given.timestamps)
               L == given.timestamps[Len(given.timestamps)]
           IN  /\ raised = "none"
               /\ Len(uuid_timeseries) = L
               /\ \A i \in 0..(L - 1) :
                     uuid_timeseries[i + 1] =
                        given.id_series[SetMax({k \in 1..Len(starts) : starts[k] <= i})]

C3_Witness ==
    /\ WellFormedWithLength /\ calls = <<Decoded>>
    /\ given.id_series = <<5, 7>> /\ given.timestamps = <<0, 3, 5>>
    /\ uuid_timeseries = <<5, 5, 5, 7, 7>>

\* the change-point invariant read without and with the final sentinel
WellFormedPlain(ids, ts) == Len(ids) = Len(ts) /\ StrictlyIncreasing(ts)
WellFormedSentinel(ids, ts) ==
    Len(ts) = Len(ids) + 1 /\ StrictlyIncreasing(ButLast(ts))

\* C4 as stated: decoding fails with MalformedSeries, and returns no series,
\* whenever starts is not strictly increasing or the number of ids does not
\* match the number of starts (final sentinel excluded).
C4_MalformedRejected ==
    (/\ given.kind = "cps"
     /\ calls = <<Decoded>>
     /\ ~WellFormedPlain(given.id_series, given.timestamps)
     /\ ~WellFormedSentinel(given.id_series, given.timestamps))
        => raised = "MalformedSeries"

\* a well-formed series with its total length appended, the whole strictly increasing
WellFormedIncreasing == WellFormedWithLength /\ StrictlyIncreasing(given.timestamps)

ReencodedAsGiven ==
    /\ raised = "none"
    /\ id_series = given.id_series
    /\ timestamps = IF calls[2].append_final_timestamp
                    THEN given.timestamps ELSE ButLast(given.timestamps)

\* C5 as stated: a well-formed change-point series (len(ids) = len(starts),
\* starts strictly increasing from 0), decoded and re-encoded with
\* get_id_series, reproduces the same ids and the same starts.
C5_ReencodeReproduces ==
    (WellFormedIncreasing /\ Len(calls) = 2) => ReencodedAsGiven

\* C5 amended: it does when, in addition, no two adjacent ids are equal (and
\* the series was decoded with its total length L > starts[-1] as the final
\* timestamp).
C5_ReencodeReproducesDistinctRuns ==
    (/\ WellFormedIncreasing
     /\ \A k \in 1..(Len(given.id_series) - 1) :
            given.id_series[k] # given.id_series[k + 1]
     /\ Len(calls) = 2)
        => ReencodedAsGiven

C5_Witness ==
    /\ WellFormedIncreasing
    /\ given.id_series = <<5, 7>> /\ given.timestamps = <<0, 3, 5>>
    /\ calls = <<Decoded, Encoded(FALSE)>>
    /\ id_series = <<5, 7>> /\ timestamps = <<0, 3>>

\* C6: get_id_series on an empty dense series raises EmptyTimeSeriesException,
\* for both values of append_final_timestamp, and returns no (ids, starts).
C6_EmptyRaises ==
    (given.kind = "dense" /\ given.dense = <<>> /\ Len(calls) >= 1)
        => /\ raised = "EmptyTimeSeriesException"
           /\ calls \in {<<Encoded(TRUE)>>, <<Encoded(FALSE)>>}
           /\ id_series = <<>> /\ timestamps = <<>>

C6_Witness ==
    /\ given.kind = "dense" /\ given.dense = <<>>
    /\ calls = <<Encoded(TRUE)>>
    /\ raised = "EmptyTimeSeriesException"

\* C20: for every non-empty dense series d, get_time_series_for_id_series
\* applied to the output of get_id_series(d, append_final_timestamp=True)
\* returns exactly d: the decoder inverts the encoder once len(d) was appended.
C20_DecodeInvertsEncodeWithFinal ==
    (given.kind = "dense" /\ Len(given.dense) > 0
        /\ Len(calls) = 2 /\ calls[1] = Encoded(TRUE))
        => /\ calls[2] = Decoded
           /\ raised = "none"
           /\ timestamps[Len(timestamps)] = Len(given.dense)
           /\ Len(uuid_timeseries) = Len(given.dense)
           /\ \A i \in 1..Len(given.dense) : uuid_timeseries[i] = given.dense[i]

C20_Witness ==
    /\ given.kind = "dense" /\ given.dense = <<5, 7, 7, 5, 5>>
    /\ calls = <<Encoded(TRUE), Decoded>>
    /\ timestamps = <<0, 1, 3, 5>>
    /\ uuid_timeseries = <<5, 7, 7, 5, 5>>

\* C25: two adjacent nan samples count as equal: encoding puts no change
\* point inside a run of consecutive nan values.
C25_NoChangePointInsideNaNRun ==
    (given.kind = "dense" /\ Len(calls) = 1 /\ calls[1].fn = "get_id_series")
        => \A i \in 1..(Len(given.dense) - 1) :
               (given.dense[i] = NaN /\ given.dense[i + 1] = NaN)
                   => \A k \in DOMAIN timestamps : timestamps[k] # i

Repeated == [fn |-> "np.repeat", append_final_timestamp |-> FALSE]

\* a change-point series with the final sentinel: one more timestamp than
\* ids, strictly increasing from 0
SentinelAppended ==
    /\ given.kind = "cps"
    /\ Len(given.timestamps) = Len(given.id_series) + 1
    /\ given.timestamps[1] = 0
    /\ StrictlyIncreasing(given.timestamps)

\* C30: on a change-point series with the final sentinel appended, repeating
\* each ids[k] (timestamps[k+1] - timestamps[k]) times gives the dense series
\* get_time_series_for_id_series gives, and neither decoder raises.
C30_DecodersAgree ==
    (SentinelAppended /\ calls = <<Repeated>>)
        => /\ raised = "none"
           /\ Unwritten(given.id_series, given.timestamps) = {}
           /\ get_time_series_for_id_series(given.id_series, given.timestamps, NoJunk)
                 = [raised |-> "none", value |-> uuid_timeseries]

C30_Witness ==
    /\ SentinelAppended
    /\ given.id_series = <<5, 7>>
    /\ given.timestamps = <<0, 2, 5>>
    /\ calls = <<Repeated>>
    /\ uuid_timeseries = <<5, 5, 7, 7, 7>>

(***************************************************************************)
(* The multi-stream synchronizer, spec.md section 4.5 (its code,           *)
(* get_multi_dim_id_series, is not among the source files): SpecSync.      *)
(***************************************************************************)
MaxStreams == 2      \* most streams synchronized together
MaxStreamLen == 4    \* longest stream handed to the synchronizer

\* the symbols stream n carries
StreamSymbols(n) == IF n = 1 THEN {1, 2} ELSE IF n = 2 THEN {8, 9} ELSE {3, 4}

\* L = min(len(s) for s in streams), from stream n on
RECURSIVE CommonLength(_, _)
CommonLength(streams, n) ==
    IF n = Len(streams) THEN Len(streams[n])
    ELSE Min(Len(streams[n]), CommonLength(streams, n + 1))

\* every stream truncated to the common length
Truncated(streams) ==
    [n \in 1..Len(streams) |-> SubSeq(streams[n], 1, CommonLength(streams, 1))]

\* the indices i >= from, 1 <= i < L, where stream[i] != stream[i-1], increasing
RECURSIVE ChangeIndices(_, _)
ChangeIndices(stream, from) ==
    IF from > Len(stream) - 1 THEN <<>>
    ELSE (IF stream[from + 1] # stream[from] THEN <<from>> ELSE <<>>)
         \o ChangeIndices(stream, from + 1)

\* a mutant: only the first stream is searched for changes
AllChangeIndicesOfFirst(streams, n) ==
    IF n = 1 THEN ChangeIndices(streams[1], 1) ELSE <<>>

\* the change indices of every stream from stream n on, one list after another
RECURSIVE AllChangeIndices(_, _)
AllChangeIndices(streams, n) ==
    IF n > Len(streams) THEN <<>>
    ELSE ChangeIndices(streams[n], 1) \o AllChangeIndices(streams, n + 1)

\* x put at its place in the increasing list sorted, unless it is there already
RECURSIVE InsertUnique(_, _)
InsertUnique(sorted, x) ==
    IF Len(sorted) = 0 THEN <<x>>
    ELSE IF x = Head(sorted) THEN sorted
    ELSE IF x < Head(sorted) THEN <<x>> \o sorted
    ELSE <<Head(sorted)>> \o InsertUnique(Tail(sorted), x)

\* x put at its place in the increasing list sorted
RECURSIVE InsertSorted(_, _)
InsertSorted(sorted, x) ==
    IF Len(sorted) = 0 THEN <<x>>
    ELSE IF x <= Head(sorted) THEN <<x>> \o sorted
    ELSE <<Head(sorted)>> \o InsertSorted(Tail(sorted), x)

\* a mutant: sorted, the duplicates kept
RECURSIVE SortOnly(_)
SortOnly(indices) ==
    IF Len(indices) = 0 THEN <<>>
    ELSE InsertSorted(SortOnly(Tail(indices)), Head(indices))

\* "sorts and de-duplicates this union"
RECURSIVE SortUnique(_)
SortUnique(indices) ==
    IF Len(indices) = 0 THEN <<>>
    ELSE InsertUnique(SortUnique(Tail(indices)), Head(indices))

\* a mutant: the sentinel appended is the last index, L - 1
AppendSentinelLastIndex(starts, L, appendFinal) ==
    IF appendFinal THEN Append(starts, L - 1) ELSE starts

\* "if appendFinal, appends L to starts as a non-segment sentinel"
AppendSentinel(starts, L, appendFinal) ==
    IF appendFinal THEN Append(starts, L) ELSE starts

\* segments[k] = tuple(stream[starts[k]] for stream in streams)
Segments(streams, starts) ==
    [k \in 1..Len(starts) |-> [n \in 1..Len(streams) |-> streams[n][starts[k] + 1]]]

\* synchronize(streams, appendFinal) -> (segments, starts)
synchronize(streams, appendFinal) ==
    LET t == Truncated(streams)
        starts == <<0>> \o SortUnique(AllChangeIndices(t, 1))
    IN  [segments |-> Segments(t, starts),
         starts |-> AppendSentinel(starts, CommonLength(streams, 1), appendFinal)]

\* one to MaxStreams non-empty streams, of lengths that may differ
StreamInputs ==
    UNION {{ss \in [1..n -> SeqsBetween({1, 2, 3, 4, 8, 9}, 1, MaxStreamLen)] :
                \A k \in 1..n : Range(ss[k]) \subseteq StreamSymbols(k)} : n \in 1..MaxStreams}

InitSync ==
    /\ ServiceIdle
    /\ DataIdle
    /\ \E ss \in StreamInputs : given = [kind |-> "streams", streams |-> ss]
    /\ calls = <<>>
    /\ uuid_timeseries = <<>>
    /\ id_series = <<>>
    /\ timestamps = <<>>
    /\ raised = "none"
    /\ LoadIdle

\* synchronize(streams, appendFinal): the segments and starts are left in the
\* registers id_series and timestamps
CallSynchronize ==
    /\ calls = <<>>
    /\ \E appendFinal \in BOOLEAN :
          \E r \in {synchronize(given.streams, appendFinal)} :
              /\ calls' = <<[fn |-> "synchronize", appendFinal |-> appendFinal]>>
              /\ id_series' = r.segments
              /\ timestamps' = r.starts
    /\ UNCHANGED <<given, uuid_timeseries, raised>>
    /\ UNCHANGED loadVars
    /\ UNCHANGED svcVars
    /\ UNCHANGED dataVars

NextSync == CallSynchronize

SpecSync == InitSync /\ [][NextSync]_vars

(***************************************************************************)
(* Claims about the synchronizer (checked under SpecSync).                 *)
(***************************************************************************)
Synchronized == given.kind = "streams" /\ Len(calls) = 1

\* the common length, and stream n's sample at index i (0-based)
SyncLength == CHOOSE m \in {Len(given.streams[n]) : n \in 1..Len(given.streams)} :
                 \A n \in 1..Len(given.streams) : m <= Len(given.streams[n])
SampleAt(n, i) == given.streams[n][i + 1]

\* the starts without the sentinel
SegmentStarts == IF calls[1].appendFinal THEN ButLast(timestamps) ELSE timestamps

\* C11: for N streams truncated to the common length L, starts is 0 followed by
\* the sorted, duplicate-free union over all streams of the indices i, 0 < i < L,
\* where that stream differs from its previous sample, and segments[k] is the
\* tuple of every stream's value at starts[k].  A=[1,1,2,2], B=[9,9,9,8] give
\* starts [0,2,3] and segments [(1,9),(2,9),(2,8)].
C11_StartsAreUnionOfChanges ==
    Synchronized
        => LET N == Len(given.streams)
               starts == SegmentStarts
           IN  /\ starts[1] = 0
               /\ StrictlyIncreasing(starts)
               /\ Range(starts) =
                    {0} \cup {i \in 1..(SyncLength - 1) :
                                 \E n \in 1..N : SampleAt(n, i) # SampleAt(n, i - 1)}
               /\ Len(id_series) = Len(starts)
               /\ \A k \in 1..Len(starts) :
                     /\ Len(id_series[k]) = N
                     /\ \A n \in 1..N : id_series[k][n] = SampleAt(n, starts[k])
               /\ given.streams = <<(<<1, 1, 2, 2>>), (<<9, 9, 9, 8>>)>>
                     => /\ starts = <<0, 2, 3>>
                        /\ id_series = <<(<<1, 9>>), (<<2, 9>>), (<<2, 8>>)>>

C11_Witness ==
    /\ Synchronized
    /\ given.streams = <<(<<1, 1, 2, 2>>), (<<9, 9, 9, 8>>)>>
    /\ timestamps = <<0, 2, 3, 4>>
    /\ id_series = <<(<<1, 9>>), (<<2, 9>>), (<<2, 8>>)>>

\* C12: in the output of synchronize, for every k >= 1 the tuple segments[k]
\* differs from segments[k-1] in at least one stream position.
C12_AdjacentSegmentsDiffer ==
    Synchronized
        => \A k \in 2..Len(id_series) :
              \E n \in 1..Len(given.streams) : id_series[k][n] # id_series[k - 1][n]

\* both streams change at the same index: one boundary, not two
C12_Witness ==
    /\ Synchronized
    /\ given.streams = <<(<<1, 2, 2>>), (<<9, 8, 9>>)>>
    /\ id_series = <<(<<1, 9>>), (<<2, 8>>), (<<2, 9>>)>>

RECURSIVE SumOfLengths(_, _)
SumOfLengths(starts, k) ==
    IF k > Len(starts) - 1 THEN 0
    ELSE (starts[k + 1] - starts[k]) + SumOfLengths(starts, k + 1)

\* C13: with the final sentinel L appended, starts is strictly increasing from
\* 0 to L and the segment lengths starts[k+1] - starts[k] sum to exactly L.
C13_SegmentsCoverTimeline ==
    (Synchronized /\ calls[1].appendFinal)
        => /\ Len(timestamps) = Len(id_series) + 1
           /\ timestamps[1] = 0
           /\ timestamps[Len(timestamps)] = SyncLength
           /\ StrictlyIncreasing(timestamps)
           /\ SumOfLengths(timestamps, 1) = SyncLength

\* streams of different lengths: the timeline is the shorter one's
C13_Witness ==
    /\ Synchronized /\ calls[1].appendFinal
    /\ given.streams = <<(<<1, 1, 2, 2>>), (<<9, 8>>)>>
    /\ timestamps = <<0, 1, 2>>

(***************************************************************************)
(* SpecLoad, SpecAvail, SpecExtract: one loader call on one measurement    *)
(* directory.  The three differ in the inputs Init draws.                  *)
(***************************************************************************)
MaxSamples == 5        \* longest stream / pause mask (SpecLoad)
MaxAdvertised == 2     \* most advertised file names (SpecAvail)
MaxBeaconSamples == 3  \* longest pause mask / beacon array (SpecExtract)

StreamValues == {10, 20, 30}

CodecIdle ==
    /\ given = [kind |-> "none"]
    /\ calls = <<>>
    /\ uuid_timeseries = <<>>
    /\ id_series = <<>>
    /\ timestamps = <<>>
    /\ raised = "none"

\* the container written for a dense series: its id series with the final
\* timestamp appended
Container(dense) ==
    LET e == get_id_series(dense, TRUE)
    IN  [id_series |-> e.id_series, timestamps |-> e.timestamps]

BeaconContainer(closeness_arr, usage_arr) ==
    [closeness_arr |-> closeness_arr, usage_arr |-> usage_arr, uuids |-> <<"b1">>]

\* the directory restricted to the files named in present
OnDisk(files, present) == [n \in (DOMAIN files) \cap present |-> files[n]]

Files(stream, pause, closeness_arr, usage_arr) ==
    [n \in {RegionTsData, PauseData, DynBeaconData} |->
        IF n = RegionTsData THEN Container(stream)
        ELSE IF n = PauseData THEN Container(pause)
        ELSE BeaconContainer(closeness_arr, usage_arr)]

Idle ==
    /\ call = NoCall
    /\ opened = <<>>
    /\ returned = <<>>
    /\ load_raised = "none"

AllAdvertised ==
    <<RegionTsData \o PickleSuffix, PauseData \o PickleSuffix, DynBeaconData \o PickleSuffix>>

\* every stream and every pause mask up to MaxSamples, all files present
InitLoad ==
    /\ ServiceIdle
    /\ DataIdle
    /\ CodecIdle
    /\ Idle
    /\ available_measurement_files = AllAdvertised
    /\ \E stream \in SeqsBetween(StreamValues, 1, MaxSamples),
          pause \in SeqsBetween(BOOLEAN, 1, MaxSamples) :
          disk = Files(stream, pause, <<<<1>>, <<0>>, <<1>>>>, <<<<0>>, <<0>>, <<1>>>>)

\* advertised names with and without the suffix, files present or missing
AdvertisedNames ==
    {RegionTsData, RegionTsData \o PickleSuffix, RegionTsData \o PickleSuffix \o PickleSuffix,
     PickleSuffix, <<"a", "p", "i", "c", "k", "l", "e">>, StepCounterData \o PickleSuffix}

InitAvail ==
    /\ ServiceIdle
    /\ DataIdle
    /\ CodecIdle
    /\ Idle
    /\ available_measurement_files \in SeqsBetween(AdvertisedNames, 0, MaxAdvertised)
    /\ \E present \in SUBSET {RegionTsData, PauseData} :
          disk = OnDisk(Files(<<10, 10, 20>>, <<FALSE, TRUE>>, <<<<1>>>>, <<<<0>>>>),
                        present \cup {DynBeaconData})

\* beacon arrays and pause masks of every length up to MaxBeaconSamples
InitExtract ==
    /\ ServiceIdle
    /\ DataIdle
    /\ CodecIdle
    /\ Idle
    /\ available_measurement_files = AllAdvertised
    /\ \E stream \in SeqsBetween({10, 20}, 1, 2),
          pause \in SeqsBetween(BOOLEAN, 1, MaxBeaconSamples),
          closeness_arr \in SeqsBetween({<<0>>, <<1>>}, 0, MaxBeaconSamples),
          present \in {{RegionTsData, PauseData, DynBeaconData},
                       {RegionTsData, DynBeaconData}, {RegionTsData, PauseData},
                       {PauseData, DynBeaconData}} :
          disk = OnDisk(Files(stream, pause, closeness_arr,
                              [i \in 1..Len(closeness_arr) |-> <<0>>]),
                        present)

TargetNames == {RegionTsData, RegionTsData \o PickleSuffix, StepCounterData, <<>>}

Called(fn, target_ts_name, remove_pauses) ==
    [fn |-> fn, target_ts_name |-> target_ts_name, remove_pauses |-> remove_pauses,
     passes |-> 1, first |-> <<>>]

\* load_timeseries(measurement_file_path, target_ts_name, remove_pauses)
CallLoadTimeseries ==
    /\ call = NoCall
    /\ \E target_ts_name \in TargetNames, remove_pauses \in BOOLEAN :
          \E r \in {load_timeseries(disk, available_measurement_files,
                                     target_ts_name, remove_pauses)} :
              /\ call' = Called("load_timeseries", target_ts_name, remove_pauses)
              /\ opened' = r.opened
              /\ returned' = r.value
              /\ load_raised' = r.raised
    /\ UNCHANGED <<available_measurement_files, disk>>
    /\ UNCHANGED codecVars
    /\ UNCHANGED svcVars
    /\ UNCHANGED dataVars

\* get_simple_ts_from_pickle_file(measurement_file_path, target_ts_name, remove_pauses)
CallGetSimpleTs ==
    /\ call = NoCall
    /\ \E target_ts_name \in {RegionTsData, StepCounterData}, remove_pauses \in BOOLEAN :
          \E r \in {get_simple_ts_from_pickle_file(disk, target_ts_name, remove_pauses)} :
              /\ call' = Called("get_simple_ts_from_pickle_file", target_ts_name,
                                remove_pauses)
              /\ opened' = r.opened
              /\ returned' = r.value
              /\ load_raised' = r.raised
    /\ UNCHANGED <<available_measurement_files, disk>>
    /\ UNCHANGED codecVars
    /\ UNCHANGED svcVars
    /\ UNCHANGED dataVars

\* the pause-removal statements (lines 79-85) applied once more, with the same
\* pause mask, to the series a loader returned
RemovePausesAgain ==
    /\ call.fn \in {"load_timeseries", "get_simple_ts_from_pickle_file"}
    /\ call.remove_pauses
    /\ call.passes = 1
    /\ load_raised = "none"
    /\ \E p \in {get_pause_ts_for_measurement(disk)} :
         \E r \in {RemovePauses(returned, p.value)} :
           /\ call' = [call EXCEPT !.passes = 2, !.first = returned]
           /\ opened' = opened \o p.opened
           /\ returned' = r.value
           /\ load_raised' = r.raised
    /\ UNCHANGED <<available_measurement_files, disk>>
    /\ UNCHANGED codecVars
    /\ UNCHANGED svcVars
    /\ UNCHANGED dataVars

\* extract_dynamic_beacon_data(data, selected_measurement_metadata, root_folder_path)
CallExtractDynamicBeaconData ==
    /\ call = NoCall
    /\ \E r \in {extract_dynamic_beacon_data(disk)} :
           /\ call' = Called("extract_dynamic_beacon_data", <<>>, TRUE)
           /\ opened' = r.opened
           /\ returned' = [logged |-> r.logged, csv |-> r.csv]
           /\ load_raised' = "none"
    /\ UNCHANGED <<available_measurement_files, disk>>
    /\ UNCHANGED codecVars
    /\ UNCHANGED svcVars
    /\ UNCHANGED dataVars

NextLoad ==
    \/ CallLoadTimeseries
    \/ CallGetSimpleTs
    \/ RemovePausesAgain
    \/ CallExtractDynamicBeaconData

SpecLoad == InitLoad /\ [][NextLoad]_vars
SpecAvail == InitAvail /\ [][NextLoad]_vars
SpecExtract == InitExtract /\ [][NextLoad]_vars

(***************************************************************************)
(* The per-measurement report of the web service: index.py 199-294, with   *)
(* the id-to-name maps of measurement_processing.py 254-322.               *)
(***************************************************************************)
UnifiedHarData ==
    <<"u", "n", "i", "f", "i", "e", "d", "_", "h", "a", "r", "_", "d", "a", "t", "a">>

\* translations.py 8-18
ACTIVITY_TRANSLATION_KEY_TO_NAME ==
    ("HUMAN_ACT.WALK" :> "Walk") @@ ("HUMAN_ACT.OTHER" :> "Unknown")
    @@ ("HUMAN_ACT.STAND" :> "Stand") @@ ("HUMAN_ACT.HANDLE" :> "Handling")
    @@ ("HUMAN_ACT.DRIVE" :> "Drive") @@ ("HUMAN_ACT.NO_HANDLE" :> "No Handling")
    @@ ("HUMAN_ACT.HANDLE_UP" :> "Handle up")
    @@ ("HUMAN_ACT.HANDLE_CENTER" :> "Handle center")
    @@ ("HUMAN_ACT.HANDLE_DOWN" :> "Handle down")

\* a mutant: dict.get(key, key) instead of dict[key]
HasTranslationAlways(translation_key) == TRUE

\* the subscript ACTIVITY_TRANSLATION_KEY_TO_NAME[key] finds the key
HasTranslation(translation_key) ==
    translation_key \in DOMAIN ACTIVITY_TRANSLATION_KEY_TO_NAME

Translate(translation_key) ==
    IF translation_key \in DOMAIN ACTIVITY_TRANSLATION_KEY_TO_NAME
    THEN ACTIVITY_TRANSLATION_KEY_TO_NAME[translation_key]
    ELSE translation_key

\* dict[key] = value
DictSet(dict, key, value) ==
    [x \in (DOMAIN dict) \cup {key} |-> IF x = key THEN value ELSE dict[x]]

\* the dict comprehension of lines 269-270 (318-319) from entry k on: the first
\* key without a translation raises KeyError and no dict is built
RECURSIVE IdToNameMap(_, _, _)
IdToNameMap(available_acts, k, id_to_name_map) ==
    IF k > Len(available_acts) THEN [raised |-> "none", value |-> id_to_name_map]
    ELSE IF ~HasTranslation(available_acts[k].translation_key)
    THEN [raised |-> "KeyError", value |-> <<>>]
    ELSE IdToNameMap(available_acts, k + 1,
                     DictSet(id_to_name_map, available_acts[k].id,
                             Translate(available_acts[k].translation_key)))

\* lines 263-273 and 313-322 for data[level]
PlotInfo(d, level) ==
    IF UnifiedHarData \notin DOMAIN d
    THEN [raised |-> "FileNotFoundError", value |-> <<>>, opened |-> <<UnifiedHarData>>]
    ELSE LET r == IdToNameMap(d[UnifiedHarData][level].available_acts, 1, <<>>)
         IN  [raised |-> r.raised, value |-> r.value, opened |-> <<UnifiedHarData>>]

\* get_base_activity_plot_info: lines 254-273 (the id-to-name map)
get_base_activity_plot_info(d) == PlotInfo(d, 1)

\* get_handling_heights_plot_info: lines 304-322 (the id-to-name map)
get_handling_heights_plot_info(d) == PlotInfo(d, 2)

\* lines 236-246 and 286-296 for data[level]['act_id_ts']
ActivitySeries(d, level, remove_pauses) ==
    IF UnifiedHarData \notin DOMAIN d
    THEN [raised |-> "FileNotFoundError", value |-> <<>>, opened |-> <<UnifiedHarData>>]
    ELSE LET c == d[UnifiedHarData][level].act_id_ts
             f == get_time_series_for_id_series(c.id_series, c.timestamps, NoJunk)
             o == <<UnifiedHarData>>
         IN  IF f.raised # "none" \/ ~remove_pauses
             THEN [raised |-> f.raised, value |-> f.value, opened |-> o]
             ELSE LET p == get_pause_ts_for_measurement(d)
                      r == RemovePauses(f.value, p.value)
                  IN  IF p.raised # "none"
                      THEN [raised |-> p.raised, value |-> <<>>, opened |-> o \o p.opened]
                      ELSE [raised |-> r.raised, value |-> r.value,
                            opened |-> o \o p.opened]

\* get_base_activitiy_ts_for_measurement: lines 226-251
get_base_activitiy_ts_for_measurement(d, remove_pauses) ==
    ActivitySeries(d, 1, remove_pauses)

\* get_handling_heights_ts_for_measurement: lines 276-301
get_handling_heights_ts_for_measurement(d, remove_pauses) ==
    ActivitySeries(d, 2, remove_pauses)

\* index.py 238-239, 266-267: "i * 0.1" seconds, in milliseconds
SampleStepMs == 100

\* round(start_time_seconds + i * 0.1, 3), in whole milliseconds
TimeMs(start_time_ms, i) == start_time_ms + i * SampleStepMs

\* data.processes[process_uuid]["layout"]["regions"] as uuid -> name
region_uuid_to_name == ("10" :> "Dock")

\* a mutant: no fallback label, the uuid itself
RegionNameOrUuid(r) ==
    IF r \in DOMAIN region_uuid_to_name THEN region_uuid_to_name[r] ELSE r

\* region_uuid_to_name.get(r, 'Unknown Region')
RegionName(r) ==
    IF r \in DOMAIN region_uuid_to_name THEN region_uuid_to_name[r] ELSE "Unknown Region"

\* index.py 240-241: the label of one sample; a subscript with an id the dict
\* does not hold raises KeyError
ActivityLabel(a, h, activity_id_to_name_map, handling_height_id_to_name_map) ==
    IF a \notin DOMAIN activity_id_to_name_map
    THEN [raised |-> "KeyError", value |-> ""]
    ELSE IF activity_id_to_name_map[a] # "Handling"
    THEN [raised |-> "none", value |-> activity_id_to_name_map[a]]
    ELSE IF h \notin DOMAIN handling_height_id_to_name_map
    THEN [raised |-> "KeyError", value |-> ""]
    ELSE [raised |-> "none", value |-> handling_height_id_to_name_map[h]]

\* the list comprehension of lines 240-241 over zip(base_act_ts,
\* handling_heights_ts), from pair i on; column holds the labels made so far
RECURSIVE ActivityColumn(_, _, _, _, _, _)
ActivityColumn(base_act_ts, handling_heights_ts, amap, hmap, i, column) ==
    IF i > Min(Len(base_act_ts), Len(handling_heights_ts))
    THEN [raised |-> "none", value |-> column]
    ELSE IF ActivityLabel(base_act_ts[i], handling_heights_ts[i], amap, hmap).raised # "none"
    THEN [raised |-> "KeyError", value |-> <<>>]
    ELSE ActivityColumn(base_act_ts, handling_heights_ts, amap, hmap, i + 1,
             Append(column,
                    ActivityLabel(base_act_ts[i], handling_heights_ts[i], amap, hmap).value))

\* pd.DataFrame of lines 236-243 once the activity column is made: ValueError
\* when its columns differ in length
FrameOf(start_time_ms, base_act_ts, region_ts, pause_ts, activity) ==
    IF activity.raised # "none" THEN [raised |-> activity.raised, rows |-> <<>>]
    ELSE IF {Len(region_ts), Len(activity.value), Len(pause_ts)} # {Len(base_act_ts)}
    THEN [raised |-> "ValueError", rows |-> <<>>]
    ELSE [raised |-> "none",
          rows |-> [i \in 1..Len(base_act_ts) |->
                      [startTime |-> TimeMs(start_time_ms, i - 1),
                       endTime |-> TimeMs(start_time_ms, i),
                       region |-> RegionName(region_ts[i]),
                       activity |-> activity.value[i],
                       isPauseData |-> pause_ts[i]]]]

\* index.py 236-243: df_activity
ActivityFrame(start_time_ms, base_act_ts, region_ts, handling_heights_ts, pause_ts, amap, hmap) ==
    CHOOSE frame \in
        {FrameOf(start_time_ms, base_act_ts, region_ts, pause_ts, activity) :
            activity \in {ActivityColumn(base_act_ts, handling_heights_ts,
                                         amap, hmap, 1, <<>>)}} : TRUE

\* the rows of a frame where keep holds, in order
RECURSIVE FilterRows(_, _, _)
FilterRows(rows, keep, i) ==
    IF i > Len(rows) THEN <<>>
    ELSE (IF keep[i] THEN <<rows[i]>> ELSE <<>>) \o FilterRows(rows, keep, i + 1)

\* index.py 257-277: df_beacon for beacon column idx, filtered to the rows
\* where the beacon is nearby or in use.  region_ts[i] past the end of
\* region_ts raises IndexError, columns of different length ValueError.
BeaconFrame(start_time_ms, closeness_arr, usage_arr, region_ts, idx) ==
    LET n == Len(closeness_arr)
    IN  IF Len(region_ts) < n THEN [raised |-> "IndexError", rows |-> <<>>]
        ELSE IF Len(usage_arr) # n THEN [raised |-> "ValueError", rows |-> <<>>]
        ELSE [raised |-> "none",
              rows |-> FilterRows(
                  [i \in 1..n |->
                      [startTime |-> TimeMs(start_time_ms, i - 1),
                       endTime |-> TimeMs(start_time_ms, i),
                       region |-> RegionName(region_ts[i]),
                       isNearby |-> closeness_arr[i][idx] # 0,
                       isUsing |-> usage_arr[i][idx] # 0]],
                  [i \in 1..n |-> closeness_arr[i][idx] # 0 \/ usage_arr[i][idx] # 0],
                  1)]

\* the loop of index.py 257-287 from beacon idx on: the log lines and the
\* frames saved so far, up to the first exception
RECURSIVE BeaconLoop(_, _, _, _, _, _, _, _)
BeaconLoop(start_time_ms, closeness_arr, usage_arr, beacon_uuids, region_ts, idx, logs, saved) ==
    IF idx > Len(beacon_uuids) THEN [raised |-> "none", logs |-> logs, saved |-> saved]
    ELSE CHOOSE out \in
        {IF f.raised # "none" THEN [raised |-> f.raised, logs |-> logs, saved |-> saved]
         ELSE IF Len(f.rows) > 0
         THEN BeaconLoop(start_time_ms, closeness_arr, usage_arr, beacon_uuids,
                         region_ts, idx + 1,
                         Append(logs, "Saved beacon data"), Append(saved, f.rows))
         ELSE BeaconLoop(start_time_ms, closeness_arr, usage_arr, beacon_uuids,
                         region_ts, idx + 1,
                         Append(logs, "No relevant beacon interactions"), saved) :
            f \in {BeaconFrame(start_time_ms, closeness_arr, usage_arr, region_ts, idx)}} :
        TRUE

\* index.py 252-292: the beacon part, its exceptions caught and logged
BeaconPart(d, start_time_ms, region_ts) ==
    CHOOSE out \in
        {IF b.raised # "none"
         THEN [logs |-> <<"Error processing beacon data">>, saved |-> <<>>]
         ELSE CHOOSE o \in
            {IF l.raised # "none"
             THEN [logs |-> Append(l.logs, "Error processing beacon data"),
                   saved |-> l.saved]
             ELSE [logs |-> l.logs, saved |-> l.saved] :
                l \in {BeaconLoop(start_time_ms, b.value.closeness_arr, b.value.usage_arr,
                                  b.value.uuids, region_ts, 1, <<>>, <<>>)}} : TRUE :
            b \in {get_dynamic_beacon_data_for_measurement(d, FALSE)}} : TRUE

\* the outcome of process_measurement when an exception leaves it
Raises(exception) ==
    [raised |-> exception, logs |-> <<>>, activity |-> <<>>, beacons |-> <<>>]

\* index.py 236-294 once df_activity is made
Report(frame, beacon) ==
    IF frame.raised # "none" THEN Raises(frame.raised)
    ELSE [raised |-> "none",
          logs |-> <<"Saved activity data">> \o beacon.logs,
          activity |-> frame.rows,
          beacons |-> beacon.saved]

\* index.py 205-294 once the streams and maps are loaded
Loaded(d, measurement_info, base_act_ts, region_ts, handling_heights_ts, pause_ts, amap, hmap) ==
    IF base_act_ts.raised # "none" THEN Raises(base_act_ts.raised)
    ELSE IF region_ts.raised # "none" THEN Raises(region_ts.raised)
    ELSE IF handling_heights_ts.raised # "none" THEN Raises(handling_heights_ts.raised)
    ELSE IF pause_ts.raised # "none" THEN Raises(pause_ts.raised)
    ELSE IF amap.raised # "none" THEN Raises(amap.raised)
    ELSE IF hmap.raised # "none" THEN Raises(hmap.raised)
    ELSE IF ~measurement_info.found
    THEN [raised |-> "none", logs |-> <<"Measurement info not found">>,
          activity |-> <<>>, beacons |-> <<>>]
    ELSE CHOOSE out \in
        {Report(frame, beacon) :
            frame \in {ActivityFrame(measurement_info.start_time_ms, base_act_ts.value,
                                     region_ts.value, handling_heights_ts.value,
                                     pause_ts.value, amap.value, hmap.value)},
            beacon \in {BeaconPart(d, measurement_info.start_time_ms, region_ts.value)}} :
        TRUE

\* process_measurement: index.py 199-294.  measurement_info is the entry of
\* data.measurements found for the uuid (found = FALSE when there is none);
\* times are milliseconds after local midnight.
process_measurement(d, measurement_info) ==
    CHOOSE out \in
        {Loaded(d, measurement_info, base_act_ts, region_ts, handling_heights_ts,
                pause_ts, amap, hmap) :
            base_act_ts \in {get_base_activitiy_ts_for_measurement(d, FALSE)},
            region_ts \in {get_region_ts_for_measurement(d, FALSE)},
            handling_heights_ts \in {get_handling_heights_ts_for_measurement(d, FALSE)},
            pause_ts \in {get_pause_ts_for_measurement(d)},
            amap \in {get_base_activity_plot_info(d)},
            hmap \in {get_handling_heights_plot_info(d)}} : TRUE

(***************************************************************************)
(* SpecPlotInfo, SpecReport: the id-to-name maps and process_measurement   *)
(* on one measurement directory.  The two differ in the inputs Init draws. *)
(***************************************************************************)
MaxActs == 2     \* most entries of an available_acts side-table (SpecPlotInfo)
MaxRows == 2     \* longest stream of a reported measurement (SpecReport)

\* entries of data['1']['available_acts'] and data['2']['available_acts'];
\* HUMAN_ACT.FLY and HUMAN_ACT.CLIMB have no translation
BaseActs ==
    {[id |-> i, translation_key |-> k] :
        i \in {1, 2}, k \in {"HUMAN_ACT.WALK", "HUMAN_ACT.HANDLE", "HUMAN_ACT.FLY"}}
HeightActs ==
    {[id |-> i, translation_key |-> k] :
        i \in {4, 5}, k \in {"HUMAN_ACT.HANDLE_UP", "HUMAN_ACT.CLIMB"}}

\* the container unified_har_data: data['1'] and data['2']
HarContainer(acts, act_ts, height_acts, height_ts) ==
    <<[available_acts |-> acts, act_id_ts |-> Container(act_ts)],
      [available_acts |-> height_acts, act_id_ts |-> Container(height_ts)]>>

ReportFiles(har, region, pause, closeness_arr, usage_arr) ==
    [n \in {UnifiedHarData, RegionTsData, PauseData, DynBeaconData} |->
        IF n = UnifiedHarData THEN har
        ELSE IF n = RegionTsData THEN Container(region)
        ELSE IF n = PauseData THEN Container(pause)
        ELSE BeaconContainer(closeness_arr, usage_arr)]

\* every side-table up to MaxActs entries, the container present or missing
InitPlotInfo ==
    /\ ServiceIdle
    /\ DataIdle
    /\ CodecIdle
    /\ Idle
    /\ available_measurement_files = AllAdvertised
    /\ \E acts \in SeqsBetween(BaseActs, 0, MaxActs),
          height_acts \in SeqsBetween(HeightActs, 0, MaxActs),
          present \in {{UnifiedHarData}, {}} :
          disk = OnDisk(ReportFiles(HarContainer(acts, <<1>>, height_acts, <<4>>),
                                    <<10>>, <<FALSE>>, <<<<1>>>>, <<<<0>>>>),
                        present \cup {RegionTsData, PauseData, DynBeaconData})

Walk1 == [id |-> 1, translation_key |-> "HUMAN_ACT.WALK"]
Handle2 == [id |-> 2, translation_key |-> "HUMAN_ACT.HANDLE"]
Fly2 == [id |-> 2, translation_key |-> "HUMAN_ACT.FLY"]
Up4 == [id |-> 4, translation_key |-> "HUMAN_ACT.HANDLE_UP"]

\* streams of every length up to MaxRows; activity id 99 and handling-height
\* id 99 are in no side-table, region 20 is not in the layout
InitReport ==
    /\ ServiceIdle
    /\ DataIdle
    /\ CodecIdle
    /\ Idle
    /\ available_measurement_files = AllAdvertised
    /\ \E acts \in {<<Walk1, Handle2>>, <<Walk1, Fly2>>},
          act_ts \in SeqsBetween({1, 2, 99}, 1, MaxRows),
          height_ts \in SeqsBetween({4, 99}, 1, MaxRows),
          region \in SeqsBetween({10, 20}, 1, MaxRows),
          pause \in SeqsBetween(BOOLEAN, 1, MaxRows),
          closeness_arr \in {<<>>, <<<<1>>>>, <<<<1>>, <<0>>>>},
          present \in {{UnifiedHarData, DynBeaconData}, {DynBeaconData}, {UnifiedHarData}} :
          disk = OnDisk(ReportFiles(HarContainer(acts, act_ts, <<Up4>>, height_ts),
                                    region, pause, closeness_arr,
                                    [i \in 1..Len(closeness_arr) |-> <<0>>]),
                        present \cup {RegionTsData, PauseData})

\* get_base_activity_plot_info(measurement_file_path)[0]
CallGetBaseActivityPlotInfo ==
    /\ call = NoCall
    /\ \E r \in {get_base_activity_plot_info(disk)} :
           /\ call' = [fn |-> "get_base_activity_plot_info", level |-> 1]
           /\ opened' = r.opened
           /\ returned' = r.value
           /\ load_raised' = r.raised
    /\ UNCHANGED <<available_measurement_files, disk>>
    /\ UNCHANGED codecVars
    /\ UNCHANGED svcVars
    /\ UNCHANGED dataVars

\* get_handling_heights_plot_info(measurement_file_path)[0]
CallGetHandlingHeightsPlotInfo ==
    /\ call = NoCall
    /\ \E r \in {get_handling_heights_plot_info(disk)} :
           /\ call' = [fn |-> "get_handling_heights_plot_info", level |-> 2]
           /\ opened' = r.opened
           /\ returned' = r.value
           /\ load_raised' = r.raised
    /\ UNCHANGED <<available_measurement_files, disk>>
    /\ UNCHANGED codecVars
    /\ UNCHANGED svcVars
    /\ UNCHANGED dataVars

\* process_measurement(data, process_uuid, measurement_uuid, process_base_dir)
CallProcessMeasurement ==
    /\ call = NoCall
    /\ \E found \in BOOLEAN, start_time_ms \in {0, 1234} :
         \E r \in {process_measurement(disk, [found |-> found,
                                               start_time_ms |-> start_time_ms])} :
           /\ call' = [fn |-> "process_measurement", found |-> found,
                       start_time_ms |-> start_time_ms]
           /\ opened' = <<>>
           /\ returned' = [logs |-> r.logs, activity |-> r.activity, beacons |-> r.beacons]
           /\ load_raised' = r.raised
    /\ UNCHANGED <<available_measurement_files, disk>>
    /\ UNCHANGED codecVars
    /\ UNCHANGED svcVars
    /\ UNCHANGED dataVars

NextReport ==
    \/ CallGetBaseActivityPlotInfo
    \/ CallGetHandlingHeightsPlotInfo
    \/ CallProcessMeasurement

SpecPlotInfo == InitPlotInfo /\ [][NextReport]_vars
SpecReport == InitReport /\ [][NextReport]_vars

(***************************************************************************)
(* SpecDownload: get_api_all_measurement_files (data.py 192-222) on one    *)
(* measurement directory.  A file of the directory is "cached" when it was *)
(* there before the call and "fetched" when the call wrote it.             *)
(***************************************************************************)
\* a mutant: an existing file is skipped whatever use_cache says
CachedWhateverFlag(dir, f, use_cache) == f \in DOMAIN dir

\* data.py 208: pathlib.Path(filename).is_file() and use_cache
Cached(dir, f, use_cache) == f \in DOMAIN dir /\ use_cache

\* data.py 217-219: open(filename, 'wb'), write, close
WriteFile(dir, f) == [n \in (DOMAIN dir) \cup {f} |-> IF n = f THEN "fetched" ELSE dir[n]]

\* a mutant: the first failed request ends the loop
AfterErrorStop(advertised, k) == Len(advertised) + 1

\* data.py 221-222: the error is printed and the loop goes on with the next file
AfterError(advertised, k) == k + 1

\* the loop of data.py 205-222 from the k-th advertised name on; failing are
\* the names api.get_measurement raises for
RECURSIVE DownloadLoop(_, _, _, _, _, _, _)
DownloadLoop(advertised, k, dir, requested, printed, use_cache, failing) ==
    IF k > Len(advertised)
    THEN [raised |-> "none", dir |-> dir, requested |-> requested, printed |-> printed]
    ELSE IF Cached(dir, advertised[k], use_cache)
    THEN DownloadLoop(advertised, k + 1, dir, requested, printed, use_cache, failing)
    ELSE IF advertised[k] \in failing
    THEN DownloadLoop(advertised, AfterError(advertised, k), dir,
                      Append(requested, advertised[k]), Append(printed, advertised[k]),
                      use_cache, failing)
    ELSE DownloadLoop(advertised, k + 1, WriteFile(dir, advertised[k]),
                      Append(requested, advertised[k]), printed, use_cache, failing)

\* get_api_all_measurement_files(process_uuid, measurement_uuid, use_cache)
get_api_all_measurement_files(dir, advertised, use_cache, failing) ==
    DownloadLoop(advertised, 1, dir, <<>>, <<>>, use_cache, failing)

DownloadNames == {RegionTsData, PauseData, DynBeaconData}

\* every advertised list up to MaxAdvertised names, repeats included, and
\* every set of files already in the directory
InitDownload ==
    /\ ServiceIdle
    /\ DataIdle
    /\ CodecIdle
    /\ Idle
    /\ available_measurement_files \in SeqsBetween(DownloadNames, 0, MaxAdvertised)
    /\ \E present \in SUBSET DownloadNames : disk = [n \in present |-> "cached"]

CallGetApiAllMeasurementFiles ==
    /\ call = NoCall
    /\ \E use_cache \in BOOLEAN, failing \in SUBSET DownloadNames :
          \E r \in {get_api_all_measurement_files(disk, available_measurement_files,
                                                   use_cache, failing)} :
              /\ call' = [fn |-> "get_api_all_measurement_files", use_cache |-> use_cache,
                          failing |-> failing, before |-> disk]
              /\ disk' = r.dir
              /\ opened' = r.requested
              /\ returned' = r.printed
              /\ load_raised' = r.raised
    /\ UNCHANGED available_measurement_files
    /\ UNCHANGED codecVars
    /\ UNCHANGED svcVars
    /\ UNCHANGED dataVars

NextDownload == CallGetApiAllMeasurementFiles

SpecDownload == InitDownload /\ [][NextDownload]_vars

(***************************************************************************)
(* SpecService: the request handler validate_and_process (index.py 38-71): *)
(* get_api_all_data downloads the complete measurements with threads       *)
(* (data.py 160-222), then process_data (index.py 171-197) calls           *)
(* process_measurement for every entry of data.measurements.               *)
(***************************************************************************)
MaxMeasurements == 6     \* most entries of data.measurements[process_uuid]

\* data.py 177: n = 5 # number of parallel connections
NumParallelConnections == 5

\* processes[process_uuid]["available_measurement_files"], the names the
\* files are stored under (data.py 206)
ServiceAdvertised == <<UnifiedHarData, RegionTsData, PauseData, DynBeaconData>>

\* what the API serves for every file of every measurement
ServedFiles ==
    ReportFiles(HarContainer(<<Walk1, Handle2>>, <<1, 2>>, <<Up4>>, <<4, 4>>),
                <<10, 10>>, <<FALSE, FALSE>>, <<<<1>>, <<0>>>>, <<<<0>>, <<0>>>>)

\* the requests api.get_measurement raises on, for one measurement: none,
\* the activity container, the beacon container
FailureModes == {{}, {UnifiedHarData}, {DynBeaconData}}

\* data.py 173: the complete measurements, as positions in data.measurements
RECURSIVE CompleteFrom(_, _)
CompleteFrom(ms, k) ==
    IF k > Len(ms) THEN <<>>
    ELSE IF ms[k].is_complete THEN <<k>> \o CompleteFrom(ms, k + 1)
    ELSE CompleteFrom(ms, k + 1)

complete_measurements(ms) == CompleteFrom(ms, 1)

\* chunks of six: no bound on the threads of one chunk (C18's mutant)
ChunksOfSix(complete) ==
    [c \in 1..((Len(complete) + NumParallelConnections) \div (NumParallelConnections + 1)) |->
        SubSeq(complete, (c - 1) * (NumParallelConnections + 1) + 1,
               Min(c * (NumParallelConnections + 1), Len(complete)))]

\* data.py 178: chunks = [complete_measurements[i * n:(i + 1) * n] for i in
\* range((len(complete_measurements) + n - 1) // n)]
Chunks(complete) ==
    [c \in 1..((Len(complete) + NumParallelConnections - 1) \div NumParallelConnections) |->
        SubSeq(complete, (c - 1) * NumParallelConnections + 1,
               Min(c * NumParallelConnections, Len(complete)))]

CurrentChunks == Chunks(complete_measurements(measurements))

\* process_measurement on a directory holding the files named in present;
\* every measurement of data.measurements has its measurement_info
ProcessOutcome ==
    [present \in SUBSET Range(ServiceAdvertised) |->
        process_measurement(OnDisk(ServedFiles, present),
                            [found |-> TRUE, start_time_ms |-> 0])]

LogLines(k, lines) == [j \in 1..Len(lines) |-> [measurement |-> k, line |-> lines[j]]]

\* a request arrives: any list of measurements, complete or not, in a fresh
\* temporary directory (index.py 41-43)
InitService ==
    /\ DataIdle
    /\ CodecIdle
    /\ Idle
    /\ available_measurement_files = ServiceAdvertised
    /\ disk = <<>>
    /\ measurements \in SeqsBetween({[is_complete |-> b] : b \in BOOLEAN}, 0, MaxMeasurements)
    /\ threads = [k \in 1..Len(measurements) |-> "none"]
    /\ dirs = [k \in 1..Len(measurements) |-> {}]
    /\ pc = [at |-> "request", chunk |-> 0, i |-> 0]
    /\ processing = <<>>
    /\ batch_logs = <<>>
    /\ response = "none"

\* data.py 160-178: the chunks are cut
CallGetApiAllData ==
    /\ pc.at = "request"
    /\ pc' = IF CurrentChunks = <<>> THEN [at |-> "downloaded", chunk |-> 0, i |-> 0]
             ELSE [at |-> "start", chunk |-> 1, i |-> 1]
    /\ UNCHANGED <<measurements, threads, dirs, processing, batch_logs, response>>
    /\ UNCHANGED codecVars
    /\ UNCHANGED loadVars
    /\ UNCHANGED dataVars

\* data.py 179-184: thread.start() for the next measurement of the chunk
StartThread ==
    /\ pc.at = "start"
    /\ threads' = [threads EXCEPT ![CurrentChunks[pc.chunk][pc.i]] = "running"]
    /\ pc' = IF pc.i = Len(CurrentChunks[pc.chunk])
             THEN [at |-> "join", chunk |-> pc.chunk, i |-> 1]
             ELSE [at |-> "start", chunk |-> pc.chunk, i |-> pc.i + 1]
    /\ UNCHANGED <<measurements, dirs, processing, batch_logs, response>>
    /\ UNCHANGED codecVars
    /\ UNCHANGED loadVars
    /\ UNCHANGED dataVars

\* get_api_all_measurement_files in its thread, data.py 192-222: every
\* advertised file is requested and written, a failed request is printed and
\* skipped
FinishDownload ==
    \E m \in DOMAIN threads :
        /\ threads[m] = "running"
        /\ \E failed \in FailureModes :
               dirs' = [dirs EXCEPT ![m] =
                           DOMAIN get_api_all_measurement_files(
                               <<>>, available_measurement_files, TRUE, failed).dir]
        /\ threads' = [threads EXCEPT ![m] = "finished"]
        /\ UNCHANGED <<measurements, pc, processing, batch_logs, response>>
        /\ UNCHANGED codecVars
        /\ UNCHANGED loadVars
        /\ UNCHANGED dataVars

\* a mutant: the join does not wait for the thread
JoinThreadNoWait ==
    /\ pc.at = "join"
    /\ pc' = IF pc.i < Len(CurrentChunks[pc.chunk])
             THEN [at |-> "join", chunk |-> pc.chunk, i |-> pc.i + 1]
             ELSE IF pc.chunk < Len(CurrentChunks)
             THEN [at |-> "start", chunk |-> pc.chunk + 1, i |-> 1]
             ELSE [at |-> "downloaded", chunk |-> 0, i |-> 0]
    /\ UNCHANGED <<measurements, threads, dirs, processing, batch_logs, response>>
    /\ UNCHANGED codecVars
    /\ UNCHANGED loadVars
    /\ UNCHANGED dataVars

\* data.py 185-186: thread.join() for the next thread of the chunk
JoinThread ==
    /\ pc.at = "join"
    /\ threads[CurrentChunks[pc.chunk][pc.i]] = "finished"
    /\ pc' = IF pc.i < Len(CurrentChunks[pc.chunk])
             THEN [at |-> "join", chunk |-> pc.chunk, i |-> pc.i + 1]
             ELSE IF pc.chunk < Len(CurrentChunks)
             THEN [at |-> "start", chunk |-> pc.chunk + 1, i |-> 1]
             ELSE [at |-> "downloaded", chunk |-> 0, i |-> 0]
    /\ UNCHANGED <<measurements, threads, dirs, processing, batch_logs, response>>
    /\ UNCHANGED codecVars
    /\ UNCHANGED loadVars
    /\ UNCHANGED dataVars

\* index.py 54 and 171-191: process_data saves the metadata and the layout
CallProcessData ==
    /\ pc.at = "downloaded"
    /\ pc' = [at |-> "process", chunk |-> 0, i |-> 1]
    /\ batch_logs' = LogLines(0, <<"Saved process metadata", "Saved layout image">>)
    /\ UNCHANGED <<measurements, threads, dirs, processing, response>>
    /\ UNCHANGED codecVars
    /\ UNCHANGED loadVars
    /\ UNCHANGED dataVars

\* index.py 193-195: one turn of the loop over data.measurements; an
\* exception of process_measurement leaves process_data and is answered with
\* status 500 (index.py 69-71)
ProcessNextMeasurement ==
    /\ pc.at = "process"
    /\ pc.i <= Len(measurements)
    /\ processing' = Append(processing, pc.i)
    /\ \E r \in {ProcessOutcome[dirs[pc.i]]} :
           IF r.raised # "none"
           THEN /\ pc' = [at |-> "aborted", chunk |-> 0, i |-> pc.i]
                /\ response' = 500
                /\ UNCHANGED batch_logs
           ELSE /\ pc' = [pc EXCEPT !.i = pc.i + 1]
                /\ batch_logs' = batch_logs \o LogLines(pc.i, r.logs)
                /\ UNCHANGED response
    /\ UNCHANGED <<measurements, threads, dirs>>
    /\ UNCHANGED codecVars
    /\ UNCHANGED loadVars
    /\ UNCHANGED dataVars

\* index.py 197 and 56-64: process_data returns its logs, the archive is
\* made and the request answered
ReturnLogs ==
    /\ pc.at = "process"
    /\ pc.i = Len(measurements) + 1
    /\ pc' = [at |-> "returned", chunk |-> 0, i |-> 0]
    /\ response' = 200
    /\ UNCHANGED <<measurements, threads, dirs, processing, batch_logs>>
    /\ UNCHANGED codecVars
    /\ UNCHANGED loadVars
    /\ UNCHANGED dataVars

NextService ==
    \/ CallGetApiAllData
    \/ StartThread
    \/ FinishDownload
    \/ JoinThread
    \/ CallProcessData
    \/ ProcessNextMeasurement
    \/ ReturnLogs

SpecService == InitService /\ [][NextService]_vars

(***************************************************************************)
(* SpecPauses: every loader that removes pauses, on a measurement whose    *)
(* streams and arrays have one length and whose pause mask has another.    *)
(***************************************************************************)
\* an array of rows samples x 1 column, row k holding first + k
ArrayOf(rows, first) == [k \in 1..rows |-> <<first + k>>]

PauseFiles(rows, pause) ==
    [n \in {RegionTsData, PauseData, DynBeaconData, UnifiedHarData, ShiftData,
            ForkHeightLvlData} |->
        IF n = RegionTsData THEN Container([k \in 1..rows |-> 10 * k])
        ELSE IF n = PauseData THEN Container(pause)
        ELSE IF n = DynBeaconData
        THEN BeaconContainer(ArrayOf(rows, 0), ArrayOf(rows, 10))
        ELSE IF n = UnifiedHarData
        THEN <<[available_acts |-> <<>>, act_id_ts |-> Container([k \in 1..rows |-> k])],
               [available_acts |-> <<>>,
                act_id_ts |-> Container([k \in 1..rows |-> 4 + k])]>>
        ELSE IF n = ShiftData
        THEN [shift_arr |-> ArrayOf(rows, 20), shift_pause_arr |-> ArrayOf(rows, 30)]
        ELSE [lvl_arr |-> ArrayOf(rows, 40), lvl_movement_arr |-> ArrayOf(rows, 50)]]

InitPauses ==
    /\ ServiceIdle
    /\ DataIdle
    /\ CodecIdle
    /\ Idle
    /\ available_measurement_files = AllAdvertised
    /\ \E rows \in 1..MaxBeaconSamples, pause \in SeqsBetween(BOOLEAN, 1, MaxBeaconSamples) :
          disk = PauseFiles(rows, pause)

\* get_base_activitiy_ts_for_measurement / get_handling_heights_ts_for_measurement
CallGetActivityTs ==
    /\ call = NoCall
    /\ \E level \in {1, 2}, remove_pauses \in BOOLEAN :
          \E r \in {ActivitySeries(disk, level, remove_pauses)} :
              /\ call' = Called(IF level = 1 THEN "get_base_activitiy_ts_for_measurement"
                                ELSE "get_handling_heights_ts_for_measurement",
                                UnifiedHarData, remove_pauses)
              /\ opened' = r.opened
              /\ returned' = r.value
              /\ load_raised' = r.raised
    /\ UNCHANGED <<available_measurement_files, disk>>
    /\ UNCHANGED codecVars
    /\ UNCHANGED svcVars
    /\ UNCHANGED dataVars

\* get_shift_data_for_measurement(measurement_file_path, remove_pauses)
CallGetShiftData ==
    /\ call = NoCall
    /\ \E remove_pauses \in BOOLEAN :
          \E r \in {get_shift_data_for_measurement(disk, remove_pauses)} :
              /\ call' = Called("get_shift_data_for_measurement", ShiftData, remove_pauses)
              /\ opened' = r.opened
              /\ returned' = r.value
              /\ load_raised' = r.raised
    /\ UNCHANGED <<available_measurement_files, disk>>
    /\ UNCHANGED codecVars
    /\ UNCHANGED svcVars
    /\ UNCHANGED dataVars

\* get_dynamic_beacon_data_for_measurement(measurement_file_path, remove_pauses)
CallGetDynamicBeaconData ==
    /\ call = NoCall
    /\ \E remove_pauses \in BOOLEAN :
          \E r \in {get_dynamic_beacon_data_for_measurement(disk, remove_pauses)} :
              /\ call' = Called("get_dynamic_beacon_data_for_measurement", DynBeaconData,
                                remove_pauses)
              /\ opened' = r.opened
              /\ returned' = r.value
              /\ load_raised' = r.raised
    /\ UNCHANGED <<available_measurement_files, disk>>
    /\ UNCHANGED codecVars
    /\ UNCHANGED svcVars
    /\ UNCHANGED dataVars

\* get_fork_height_data_for_measurement(measurement_file_path, remove_pauses)
CallGetForkHeightData ==
    /\ call = NoCall
    /\ \E remove_pauses \in BOOLEAN :
          \E r \in {get_fork_height_data_for_measurement(disk, remove_pauses)} :
              /\ call' = Called("get_fork_height_data_for_measurement", ForkHeightLvlData,
                                remove_pauses)
              /\ opened' = r.opened
              /\ returned' = r.value
              /\ load_raised' = r.raised
    /\ UNCHANGED <<available_measurement_files, disk>>
    /\ UNCHANGED codecVars
    /\ UNCHANGED svcVars
    /\ UNCHANGED dataVars

NextPauses ==
    \/ CallGetSimpleTs
    \/ CallGetActivityTs
    \/ CallGetShiftData
    \/ CallGetDynamicBeaconData
    \/ CallGetForkHeightData

SpecPauses == InitPauses /\ [][NextPauses]_vars

\* ======================================================================
\* The selection subscribers of MMLabsData (data.py 53-79)                 
\* ======================================================================

\* the objects that may subscribe
Subscribers == {"s1", "s2", "s3"}

\* the process and measurement uuids that may be selected
Uuids == {"u1", "u2"}

\* set.add(who)
SetAdd(S, who) == S \cup {who}

SetDiscardNothing(S, who) == S

\* set.discard(who): no error when who is not a member
SetDiscard(S, who) == S \ {who}

\* the orders in which a for loop may walk a Python set
IterationOrders(S) == {o \in [1..Cardinality(S) -> S] : \A i, j \in DOMAIN o : o[i] = o[j] => i = j}

\* one update_selected_* call as the subscriber sees it: the argument, and
\* the selected value the object holds while the subscriber runs
Update(who, method, value, selected) == [who |-> who, method |-> method, value |-> value, selected |-> selected]

\* dispatch_selected_process (data.py 59-61)
dispatch_selected_process(order, process_uuid, selected) == [i \in DOMAIN order |-> Update(order[i], "update_selected_process", process_uuid, selected)]

\* dispatch_selected_measurement (data.py 69-71)
dispatch_selected_measurement(order, measurement_uuid, selected) == [i \in DOMAIN order |-> Update(order[i], "update_selected_measurement", measurement_uuid, selected)]

InitSubscribers ==
    /\ CodecIdle
    /\ LoadIdle
    /\ ServiceIdle
    /\ DataIdle

\* register_selected_process (data.py 53-54)
register_selected_process ==
    /\ \E who \in Subscribers :
        /\ selected_process_subscribers' = SetAdd(selected_process_subscribers, who)
        /\ last_op' = [op |-> "register_selected_process", who |-> who]
    /\ notified' = <<>>
    /\ UNCHANGED <<selected_measurement_subscribers, selected_process, selected_measurement, measurements_df>>
    /\ UNCHANGED codecVars
    /\ UNCHANGED loadVars
    /\ UNCHANGED svcVars

\* unregister_selected_process (data.py 56-57)
unregister_selected_process ==
    /\ \E who \in Subscribers :
        /\ selected_process_subscribers' = SetDiscard(selected_process_subscribers, who)
        /\ last_op' = [op |-> "unregister_selected_process", who |-> who]
    /\ notified' = <<>>
    /\ UNCHANGED <<selected_measurement_subscribers, selected_process, selected_measurement, measurements_df>>
    /\ UNCHANGED codecVars
    /\ UNCHANGED loadVars
    /\ UNCHANGED svcVars

\* register_selected_measurement (data.py 63-64)
register_selected_measurement ==
    /\ \E who \in Subscribers :
        /\ selected_measurement_subscribers' = SetAdd(selected_measurement_subscribers, who)
        /\ last_op' = [op |-> "register_selected_measurement", who |-> who]
    /\ notified' = <<>>
    /\ UNCHANGED <<selected_process_subscribers, selected_process, selected_measurement, measurements_df>>
    /\ UNCHANGED codecVars
    /\ UNCHANGED loadVars
    /\ UNCHANGED svcVars

\* unregister_selected_measurement (data.py 66-67)
unregister_selected_measurement ==
    /\ \E who \in Subscribers :
        /\ selected_measurement_subscribers' = SetDiscard(selected_measurement_subscribers, who)
        /\ last_op' = [op |-> "unregister_selected_measurement", who |-> who]
    /\ notified' = <<>>
    /\ UNCHANGED <<selected_process_subscribers, selected_process, selected_measurement, measurements_df>>
    /\ UNCHANGED codecVars
    /\ UNCHANGED loadVars
    /\ UNCHANGED svcVars

\* set_selected_process (data.py 73-75): the assignment, then the dispatch,
\* whose loop walks the set in an order of Python's choosing
set_selected_process ==
    /\ \E process_uuid \in Uuids, order \in IterationOrders(selected_process_subscribers) :
        /\ selected_process' = process_uuid
        /\ notified' = dispatch_selected_process(order, process_uuid, selected_process')
        /\ last_op' = [op |-> "set_selected_process", who |-> process_uuid]
    /\ UNCHANGED <<selected_process_subscribers, selected_measurement_subscribers, selected_measurement, measurements_df>>
    /\ UNCHANGED codecVars
    /\ UNCHANGED loadVars
    /\ UNCHANGED svcVars

\* set_selected_measurement (data.py 77-79)
set_selected_measurement ==
    /\ \E measurement_uuid \in Uuids, order \in IterationOrders(selected_measurement_subscribers) :
        /\ selected_measurement' = measurement_uuid
        /\ notified' = dispatch_selected_measurement(order, measurement_uuid, selected_measurement')
        /\ last_op' = [op |-> "set_selected_measurement", who |-> measurement_uuid]
    /\ UNCHANGED <<selected_process_subscribers, selected_measurement_subscribers, selected_process, measurements_df>>
    /\ UNCHANGED codecVars
    /\ UNCHANGED loadVars
    /\ UNCHANGED svcVars

NextSubscribers ==
    \/ register_selected_process
    \/ unregister_selected_process
    \/ register_selected_measurement
    \/ unregister_selected_measurement
    \/ set_selected_process
    \/ set_selected_measurement

SpecSubscribers == InitSubscribers /\ [][NextSubscribers]_vars

\* ======================================================================
\* The CLI driver extract_data (main.py 34-77, extract_data.py 48-141)
\* ======================================================================

MaxListed == 3   \* most measurements the API lists (SpecCli)

DateData == <<"d", "a", "t", "e", "_", "d", "a", "t", "a">>

HourOfDayData == <<"h", "o", "u", "r", "_", "o", "f", "_", "d", "a", "y", "_", "d", "a", "t", "a">>

\* the pickles of a measurement of MaxRows samples whose shift array has
\* shift_rows rows and whose handling heights carry translation key height_key
CliFiles(shift_rows, height_key) ==
    [n \in {DateData, HourOfDayData, RegionTsData, UnifiedHarData, ShiftData, PauseData, DynBeaconData} |->
        IF n = DateData THEN Container([k \in 1..MaxRows |-> 20240131])
        ELSE IF n = HourOfDayData THEN Container([k \in 1..MaxRows |-> 8])
        ELSE IF n = RegionTsData THEN Container([k \in 1..MaxRows |-> 10 * k])
        ELSE IF n = UnifiedHarData
        THEN HarContainer(<<[id |-> 1, translation_key |-> "HUMAN_ACT.WALK"]>>, [k \in 1..MaxRows |-> 1],
                          <<[id |-> 4, translation_key |-> height_key]>>, [k \in 1..MaxRows |-> 4])
        ELSE IF n = ShiftData
        THEN [shift_arr |-> [k \in 1..shift_rows |-> <<TRUE>>], uuids |-> <<"shift">>]
        ELSE IF n = PauseData THEN Container([k \in 1..MaxRows |-> FALSE])
        ELSE BeaconContainer([k \in 1..MaxRows |-> <<1>>], [k \in 1..MaxRows |-> <<0>>])]

\* a measurement directory with every pickle, all of MaxRows samples
GoodDirectory == CliFiles(MaxRows, "HUMAN_ACT.HANDLE_UP")

CliNames == DOMAIN GoodDirectory

\* the measurement directories the driver may find: a good one, one without
\* the beacon pickle, and one whose shift array is a row longer than the
\* streams and whose activity pickle is missing or has an untranslated key
CliDirectories ==
    {GoodDirectory,
     OnDisk(GoodDirectory, CliNames \ {DynBeaconData}),
     OnDisk(CliFiles(MaxRows + 1, "HUMAN_ACT.CLIMB"), CliNames \ {UnifiedHarData})}

\* the classes below Exception that the driver's code raises
Exceptions == {"StopIteration", "MMLabsException", "FileNotFoundError", "ValueError", "KeyError", "TypeError", "IndexError"}

except_FileNotFoundError(exception) == exception = "FileNotFoundError"

\* except Exception (main.py 73, extract_data.py 139 and 213)
except_Exception(exception) == exception \in Exceptions

\* load_pickle / load_gzip_pickle of the files named, in order, from name k on
\* (extract_data.py 28-34, 49-53)
RECURSIVE LoadPickles(_, _, _)
LoadPickles(d, names, k) ==
    IF k > Len(names) THEN "none"
    ELSE IF names[k] \notin DOMAIN d THEN "FileNotFoundError"
    ELSE LoadPickles(d, names, k + 1)

\* pd.DataFrame of columns: ValueError unless all are of one length
DataFrameRows(columns) ==
    IF \E i, j \in DOMAIN columns : Len(columns[i]) # Len(columns[j])
    THEN [raised |-> "ValueError", rows |-> 0]
    ELSE [raised |-> "none", rows |-> Len(columns[1])]

\* extract_data.py 74-90: the frame of the decoded columns and the shift
\* rows, then the handling height names
MeasurementFrame(shift_arr, hour, region, activity, handling_height, handling_height_mapping) ==
    IF hour.raised # "none" \/ region.raised # "none" \/ activity.raised # "none" \/ handling_height.raised # "none"
    THEN [raised |-> "ValueError", rows |-> 0]
    ELSE IF DataFrameRows(<<shift_arr, hour.value, region.value, activity.value, handling_height.value>>).raised # "none"
    THEN [raised |-> "ValueError", rows |-> 0]
    ELSE [raised |-> handling_height_mapping.raised, rows |-> Len(shift_arr)]

\* process_measurement_data (extract_data.py 48-98): the exception it raises
\* and the number of rows of its frame
process_measurement_data(d) ==
    IF LoadPickles(d, <<DateData, HourOfDayData, RegionTsData, UnifiedHarData, ShiftData>>, 1) # "none"
    THEN [raised |-> "FileNotFoundError", rows |-> 0]
    ELSE IF Len(d[DateData].id_series) = 0 THEN [raised |-> "IndexError", rows |-> 0]
    ELSE CHOOSE out \in
            {MeasurementFrame(d[ShiftData].shift_arr, hour, region, activity, handling_height, handling_height_mapping) :
                hour \in {RepeatDecode(d[HourOfDayData].id_series, d[HourOfDayData].timestamps)},
                region \in {RepeatDecode(d[RegionTsData].id_series, d[RegionTsData].timestamps)},
                activity \in {RepeatDecode(d[UnifiedHarData][1].act_id_ts.id_series, d[UnifiedHarData][1].act_id_ts.timestamps)},
                handling_height \in {RepeatDecode(d[UnifiedHarData][2].act_id_ts.id_series, d[UnifiedHarData][2].act_id_ts.timestamps)},
                handling_height_mapping \in {get_handling_heights_plot_info(d)}} : TRUE

\* extract_data.py 114-141 for the frame df: the two saves, or the handler
SaveOrReport(df) ==
    IF df.raised = "none"
    THEN [raised |-> "none", printed |-> <<"Sensor raw data saved", "Handling raw data saved">>, logged |-> <<>>, rows |-> df.rows]
    ELSE IF except_Exception(df.raised)
    THEN [raised |-> "none", printed |-> <<"An error occurred">>, logged |-> <<>>, rows |-> 0]
    ELSE [raised |-> df.raised, printed |-> <<>>, logged |-> <<>>, rows |-> 0]

\* extract_measurement_data (extract_data.py 100-141): the lines it prints and
\* the exception that leaves it.  os.path.join refuses a process uuid of None.
extract_measurement_data(d, process_uuid) ==
    CHOOSE out \in {SaveOrReport(df) : df \in {IF process_uuid = None THEN [raised |-> "TypeError", rows |-> 0] ELSE process_measurement_data(d)}} : TRUE

\* extract_dynamic_beacon_data as the driver calls it (extract_data.py
\* 151-215): what it prints, what it hands to logging, what leaves it
ExtractBeacons(d, process_uuid) ==
    IF process_uuid # None
    THEN [raised |-> "none", printed |-> <<>>, logged |-> <<extract_dynamic_beacon_data(d).logged>>, rows |-> 0]
    ELSE IF except_Exception("TypeError")
    THEN [raised |-> "none", printed |-> <<>>, logged |-> <<"An error occurred while extracting dynamic beacon data">>, rows |-> 0]
    ELSE [raised |-> "TypeError", printed |-> <<>>, logged |-> <<>>, rows |-> 0]

\* what the API call of one loop turn may do (main.py 52-55): the metadata is
\* found, the request fails, or the measurement is no longer listed
LookupOutcomes == {"found", "MMLabsException", "StopIteration"}

\* main.py 65-71: the line printed, then the two extractions, m and then b
Extractions(m, b) ==
    IF m.raised # "none"
    THEN [raised |-> m.raised, printed |-> <<"Processing measurement">> \o m.printed, logged |-> <<>>]
    ELSE [raised |-> b.raised, printed |-> <<"Processing measurement">> \o m.printed, logged |-> b.logged]

\* the try block of one loop turn, main.py 52-71
TryBlock(lookup, d, process_uuid) ==
    IF lookup # "found" THEN [raised |-> lookup, printed |-> <<>>, logged |-> <<>>]
    ELSE CHOOSE out \in {Extractions(m, b) : m \in {extract_measurement_data(d, process_uuid)}, b \in {ExtractBeacons(d, process_uuid)}} : TRUE

\* the handler of main.py 73-75 for the outcome t of the try block
Handler(t) ==
    IF t.raised = "none" THEN t
    ELSE IF except_Exception(t.raised)
    THEN [raised |-> "none", printed |-> t.printed \o <<"Error extracting data for measurement">>, logged |-> t.logged]
    ELSE t

\* one loop turn, main.py 50-75: the try block and its handler
LoopTurn(lookup, d, process_uuid) ==
    CHOOSE out \in {Handler(t) : t \in {TryBlock(lookup, d, process_uuid)}} : TRUE

\* the lines of one measurement with the channel they went to
LinesVia(uuid, lines, via) == [j \in 1..Len(lines) |-> [measurement |-> uuid, line |-> lines[j], via |-> via]]

\* sort_index(ascending=False) of list_measurements (main.py 37): every order
\* of the rows with no timestamp before a later one
SortedListings(ms) ==
    {[k \in DOMAIN o |-> ms[o[k]]] : o \in {o \in IterationOrders(DOMAIN ms) : \A i, j \in DOMAIN o : i < j => ms[o[i]].timestamp >= ms[o[j]].timestamp}}

\* logs.getvalue(): what went to stdout inside redirect_stdout
StdoutOf(ls) == SelectSeq(ls, LAMBDA l : l.via = "stdout")

\* the process has up to MaxListed measurements, each with a directory;
\* download_data_for_process has set data.selected_process or has not
InitCli ==
    /\ CodecIdle
    /\ Idle
    /\ available_measurement_files = <<>>
    /\ disk = <<>>
    /\ \E n \in 0..MaxListed :
        /\ measurements \in [1..n -> {[uuid |-> ToString(k), timestamp |-> t] : k \in 1..n, t \in {1, 2}}]
        /\ \A k \in 1..n : measurements[k].uuid = ToString(k)
        /\ dirs \in [{ToString(k) : k \in 1..n} -> CliDirectories]
    /\ threads = <<>>
    /\ pc = [at |-> "list", chunk |-> 0, i |-> 0]
    /\ processing = <<>>
    /\ batch_logs = <<>>
    /\ response = <<>>
    /\ selected_process_subscribers = {}
    /\ selected_measurement_subscribers = {}
    /\ selected_process \in {None, "u1"}
    /\ selected_measurement = None
    /\ notified = <<>>
    /\ last_op = NoOp
    /\ measurements_df = NotListed

\* list_measurements (main.py 34-41, 45): the frame, or None when the request
\* fails or no measurement carries a timestamp column
CallListMeasurements ==
    /\ pc.at = "list"
    /\ \E api \in {"ok", "MMLabsException"} :
        IF api = "ok" /\ Len(measurements) > 0
        THEN \E rows \in SortedListings(measurements) : measurements_df' = [listed |-> TRUE, rows |-> rows]
        ELSE measurements_df' = NotListed
    /\ pc' = [at |-> "loop", chunk |-> 0, i |-> 1]
    /\ UNCHANGED <<measurements, threads, dirs, processing, batch_logs, response>>
    /\ UNCHANGED <<selected_process_subscribers, selected_measurement_subscribers, selected_process, selected_measurement, notified, last_op>>
    /\ UNCHANGED codecVars
    /\ UNCHANGED loadVars

\* one turn of the loop of main.py 49-75
ExtractNextMeasurement ==
    /\ pc.at = "loop"
    /\ measurements_df.listed
    /\ pc.i <= Len(measurements_df.rows)
    /\ \E lookup \in LookupOutcomes, uuid \in {measurements_df.rows[pc.i].uuid} :
        \E t \in {LoopTurn(lookup, dirs[uuid], selected_process)} :
            /\ selected_measurement' = uuid
            /\ processing' = Append(processing, uuid)
            /\ batch_logs' = batch_logs \o LinesVia(uuid, t.printed, "stdout") \o LinesVia(uuid, t.logged, "logging")
            /\ pc' = IF t.raised = "none" THEN [pc EXCEPT !.i = pc.i + 1]
                     ELSE [at |-> "raised", chunk |-> 0, i |-> pc.i]
    /\ UNCHANGED <<measurements, threads, dirs, response, measurements_df>>
    /\ UNCHANGED <<selected_process_subscribers, selected_measurement_subscribers, selected_process, notified, last_op>>
    /\ UNCHANGED codecVars
    /\ UNCHANGED loadVars

\* return logs.getvalue().split('\n'), main.py 77
ReturnLogLines ==
    /\ pc.at = "loop"
    /\ ~measurements_df.listed \/ pc.i > Len(measurements_df.rows)
    /\ response' = StdoutOf(batch_logs)
    /\ pc' = [at |-> "returned", chunk |-> 0, i |-> pc.i]
    /\ UNCHANGED <<measurements, threads, dirs, processing, batch_logs>>
    /\ UNCHANGED dataVars
    /\ UNCHANGED codecVars
    /\ UNCHANGED loadVars

NextCli ==
    \/ CallListMeasurements
    \/ ExtractNextMeasurement
    \/ ReturnLogLines

SpecCli == InitCli /\ [][NextCli]_vars

(***************************************************************************)
(* Claims about the stream loaders.                                        *)
(***************************************************************************)
\* the dense series a container stands for: sample i is ids[k] for the largest
\* k with starts[k] <= i, for i below the final timestamp
Dense(c) ==
    LET starts == ButLast(c.timestamps)
        L == c.timestamps[Len(c.timestamps)]
    IN  [i \in 1..L |->
            c.id_series[SetMax({k \in 1..Len(starts) : starts[k] <= i - 1})]]

\* the positions below m where the mask is False, and the j-th smallest of them
Unpaused(mask, m) == {i \in 1..m : ~mask[i]}
Nth(K, j) == CHOOSE i \in K : Cardinality({x \in K : x <= i}) = j

LoadedRegion ==
    /\ call.fn \in {"load_timeseries", "get_simple_ts_from_pickle_file"}
    /\ call.target_ts_name = RegionTsData
    /\ call.passes = 1

\* C7: loading with pause removal truncates stream and mask to m = min(len)
\* and returns exactly the samples stream[i], i < m, with mask[i] False, in
\* their order; mask [F,F,T,T,F] on [10,10,20,20,30] gives [10,10,30]; with
\* remove_pauses=False the decoded stream is returned unchanged.
C7_PausesRemoved ==
    LoadedRegion
        => LET stream == Dense(disk[RegionTsData])
               mask == Dense(disk[PauseData])
               K == Unpaused(mask, Min(Len(stream), Len(mask)))
           IN  /\ load_raised = "none"
               /\ ~call.remove_pauses => returned = stream
               /\ call.remove_pauses =>
                     /\ Len(returned) = Cardinality(K)
                     /\ \A j \in 1..Len(returned) : returned[j] = stream[Nth(K, j)]
               /\ (/\ call.remove_pauses
                   /\ stream = <<10, 10, 20, 20, 30>>
                   /\ mask = <<FALSE, FALSE, TRUE, TRUE, FALSE>>)
                      => returned = <<10, 10, 30>>

C7_Witness ==
    /\ LoadedRegion
    /\ call.fn = "load_timeseries" /\ call.remove_pauses
    /\ Dense(disk[RegionTsData]) = <<10, 10, 20, 20, 30>>
    /\ Dense(disk[PauseData]) = <<FALSE, FALSE, TRUE, TRUE, FALSE>>
    /\ returned = <<10, 10, 30>>

SecondPass ==
    /\ call.fn \in {"load_timeseries", "get_simple_ts_from_pickle_file"}
    /\ call.passes = 2

\* C8 as stated: pause removal applied a second time with the same mask to
\* the result of the first application yields the same series as once.
C8_PauseRemovalIdempotent ==
    SecondPass => load_raised = "none" /\ returned = call.first

\* C8 amended: the second application removes from the first result r every
\* sample r[i] whose mask[i] is True; it yields r again if and only if mask[i]
\* is False for every i < len(r), and a strictly shorter series otherwise.
C8_SecondPassRemovesMaskedPrefix ==
    SecondPass
        => LET mask == Dense(disk[PauseData])
               r == call.first
               K == Unpaused(mask, Len(r))
           IN  /\ load_raised = "none"
               /\ Len(r) <= Len(mask)
               /\ Len(returned) = Cardinality(K)
               /\ \A j \in 1..Len(returned) : returned[j] = r[Nth(K, j)]
               /\ returned = r <=> \A i \in 1..Len(r) : ~mask[i]
               /\ returned # r => Len(returned) < Len(r)

C8_Witness ==
    /\ SecondPass
    /\ call.first = <<10, 10, 30>>
    /\ Dense(disk[PauseData]) = <<FALSE, FALSE, TRUE, TRUE, FALSE>>
    /\ returned = <<10, 10>>

\* the name ends with '.pickle'
HasPickleSuffix(x) == \E n \in 0..Len(x) : x = SubSeq(x, 1, n) \o PickleSuffix

\* the name is advertised: some advertised name is it followed by '.pickle',
\* or is it and carries no '.pickle' suffix
Advertised(name) ==
    \E k \in 1..Len(available_measurement_files) :
        LET x == available_measurement_files[k]
        IN  \/ x = name \o PickleSuffix
            \/ x = name /\ ~HasPickleSuffix(x)

NotIncluded == "Exception: not included in measurement"

\* C9: load_timeseries fails with the stream-not-found error, without opening
\* any container, if and only if the requested name is not in the advertised
\* file list after a trailing '.pickle' was stripped from each advertised name.
C9_NotFoundIffNotAdvertised ==
    call.fn = "load_timeseries"
        => /\ load_raised = NotIncluded <=> ~Advertised(call.target_ts_name)
           /\ load_raised = NotIncluded => opened = <<>> /\ returned = <<>>
           /\ load_raised # NotIncluded => opened # <<>>

C9_Witness ==
    /\ call.fn = "load_timeseries"
    /\ call.target_ts_name = RegionTsData \o PickleSuffix
    /\ available_measurement_files = <<RegionTsData \o PickleSuffix>>
    /\ load_raised = NotIncluded
    /\ opened = <<>>

\* how often the call opened (read and decoded) the pause container
PauseComputations == Cardinality({k \in 1..Len(opened) : opened[k] = PauseData})

\* C10 as stated: within one extraction of a measurement whose streams all
\* load, the pause mask is computed (the pause container read and decoded)
\* exactly once and that mask is applied to every stream.
C10_PauseMaskComputedOnce ==
    (/\ call.fn = "extract_dynamic_beacon_data"
     /\ returned.logged \notin {LoadFailure("FileNotFoundError"), LoadFailure("IndexError")})
        => PauseComputations = 1

(***************************************************************************)
(* Claims about the id-to-name maps and the per-measurement report.        *)
(***************************************************************************)
\* the samples of a that the mask does not mark as pause, both cut to their
\* common length
NonPaused(a, mask) ==
    LET K == Unpaused(mask, Min(Len(a), Len(mask)))
    IN  [j \in 1..Cardinality(K) |-> a[Nth(K, j)]]

\* what the loader called should return: the non-paused samples of each of
\* its arrays
ExpectedWithoutPauses ==
    LET mask == Dense(disk[PauseData])
    IN  IF call.target_ts_name = RegionTsData
        THEN NonPaused(Dense(disk[RegionTsData]), mask)
        ELSE IF call.fn = "get_base_activitiy_ts_for_measurement"
        THEN NonPaused(Dense(disk[UnifiedHarData][1].act_id_ts), mask)
        ELSE IF call.fn = "get_handling_heights_ts_for_measurement"
        THEN NonPaused(Dense(disk[UnifiedHarData][2].act_id_ts), mask)
        ELSE IF call.fn = "get_shift_data_for_measurement"
        THEN [shift_arr |-> NonPaused(disk[ShiftData].shift_arr, mask),
              shift_pause_arr |-> NonPaused(disk[ShiftData].shift_pause_arr, mask)]
        ELSE IF call.fn = "get_dynamic_beacon_data_for_measurement"
        THEN [closeness_arr |-> NonPaused(disk[DynBeaconData].closeness_arr, mask),
              usage_arr |-> NonPaused(disk[DynBeaconData].usage_arr, mask),
              uuids |-> disk[DynBeaconData].uuids]
        ELSE [fork_lvl_arr |-> NonPaused(disk[ForkHeightLvlData].lvl_arr, mask),
              fork_target_lvl_arr |->
                  NonPaused(disk[ForkHeightLvlData].lvl_movement_arr, mask)]

\* C22 as stated: every loader that removes pauses cuts its array(s) and the
\* pause mask to their common minimum length before masking, so for any pair
\* of lengths, a mask longer than the stream included, the load succeeds and
\* returns only the non-paused samples.
C22_EveryLoaderTruncatesBothSides ==
    (call # NoCall /\ call.remove_pauses /\ call.target_ts_name # StepCounterData)
        => /\ load_raised = "none"
           /\ returned = ExpectedWithoutPauses

PlotInfoCalled ==
    /\ call.fn \in {"get_base_activity_plot_info", "get_handling_heights_plot_info"}
    /\ UnifiedHarData \in DOMAIN disk

\* the side-table the call read
ListedActs == disk[UnifiedHarData][call.level].available_acts

KnownKeys ==
    {"HUMAN_ACT.WALK", "HUMAN_ACT.OTHER", "HUMAN_ACT.STAND", "HUMAN_ACT.HANDLE",
     "HUMAN_ACT.DRIVE", "HUMAN_ACT.NO_HANDLE", "HUMAN_ACT.HANDLE_UP",
     "HUMAN_ACT.HANDLE_CENTER", "HUMAN_ACT.HANDLE_DOWN"}

\* C15: building the id-to-name map for activities or handling heights fails,
\* returning no partial map, whenever a listed category has a translation key
\* absent from the translation dictionary; when all keys are present the map
\* has exactly one entry per listed category id.
C15_UnknownTranslationKeyFails ==
    PlotInfoCalled
        => /\ load_raised = "KeyError"
                <=> \E k \in 1..Len(ListedActs) :
                       ListedActs[k].translation_key \notin KnownKeys
           /\ load_raised = "KeyError" => returned = <<>>
           /\ load_raised # "KeyError"
                => /\ load_raised = "none"
                   /\ DOMAIN returned = {ListedActs[k].id : k \in 1..Len(ListedActs)}
                   /\ \A k \in 1..Len(ListedActs) :
                         returned[ListedActs[k].id] \in
                            {ACTIVITY_TRANSLATION_KEY_TO_NAME[ListedActs[j].translation_key] :
                                j \in {j \in 1..Len(ListedActs) :
                                          ListedActs[j].id = ListedActs[k].id}}

\* the second listed category has no translation: no map, not a map of the first
C15_Witness ==
    /\ PlotInfoCalled
    /\ call.fn = "get_handling_heights_plot_info"
    /\ ListedActs = <<[id |-> 4, translation_key |-> "HUMAN_ACT.HANDLE_UP"],
                      [id |-> 5, translation_key |-> "HUMAN_ACT.CLIMB"]>>
    /\ load_raised = "KeyError"
    /\ returned = <<>>

\* the streams process_measurement read
ActivityIds == Dense(disk[UnifiedHarData][1].act_id_ts)
HeightIds == Dense(disk[UnifiedHarData][2].act_id_ts)

\* a measurement that lacks nothing: every container present, every
\* translation key known, its entry found, all streams of one length
ReportedWhole ==
    /\ call.fn = "process_measurement"
    /\ call.found
    /\ UnifiedHarData \in DOMAIN disk
    /\ \A level \in {1, 2} :
          \A k \in 1..Len(disk[UnifiedHarData][level].available_acts) :
             disk[UnifiedHarData][level].available_acts[k].translation_key \in KnownKeys
    /\ {Len(HeightIds), Len(Dense(disk[RegionTsData])), Len(Dense(disk[PauseData]))}
          = {Len(ActivityIds)}

\* sample i carries an activity id, or under 'Handling' a handling-height id,
\* with no entry in its id-to-name map
Unmapped(i) ==
    LET acts == disk[UnifiedHarData][1].available_acts
        heights == disk[UnifiedHarData][2].available_acts
    IN  \/ ActivityIds[i] \notin {acts[k].id : k \in 1..Len(acts)}
        \/ /\ \E k \in 1..Len(acts) :
                 /\ acts[k].id = ActivityIds[i]
                 /\ acts[k].translation_key = "HUMAN_ACT.HANDLE"
           /\ HeightIds[i] \notin {heights[k].id : k \in 1..Len(heights)}

\* C14 as stated: a sample whose activity id (or handling-height id) has no
\* entry in the id-to-name map still gets its report row, labelled "Unknown
\* Activity"; building the report never fails because of an unmapped id.
C14_UnmappedIdRendersUnknownActivity ==
    (ReportedWhole /\ \E i \in 1..Len(ActivityIds) : Unmapped(i))
        => /\ load_raised = "none"
           /\ Len(returned.activity) = Len(ActivityIds)
           /\ \A i \in 1..Len(ActivityIds) :
                 Unmapped(i) => returned.activity[i].activity = "Unknown Activity"

\* C17 as stated: in the per-sample activity and beacon exports the row of
\* sample i has startTime = base + i x 10 ms and endTime = base + (i+1) x 10 ms,
\* so the last activity row ends at base + len x 10 ms.
C17_RowsSpanTenMilliseconds ==
    (call.fn = "process_measurement" /\ call.found /\ load_raised = "none")
        => /\ \A i \in 1..Len(returned.activity) :
                 /\ returned.activity[i].startTime = call.start_time_ms + (i - 1) * 10
                 /\ returned.activity[i].endTime = call.start_time_ms + i * 10
           /\ \A b \in 1..Len(returned.beacons) :
                 \A j \in 1..Len(returned.beacons[b]) :
                    returned.beacons[b][j].endTime = returned.beacons[b][j].startTime + 10

RegionUuids == Dense(disk[RegionTsData])
PauseMask == Dense(disk[PauseData])

\* process_measurement ran on a measurement whose containers are all there,
\* whose translation keys are all known and whose entry was found
ReportedPresent ==
    /\ call.fn = "process_measurement"
    /\ call.found
    /\ UnifiedHarData \in DOMAIN disk
    /\ \A level \in {1, 2} :
          \A k \in 1..Len(disk[UnifiedHarData][level].available_acts) :
             disk[UnifiedHarData][level].available_acts[k].translation_key \in KnownKeys

CommonRows ==
    Min(Min(Len(ActivityIds), Len(HeightIds)), Min(Len(RegionUuids), Len(PauseMask)))

\* C23 as stated: the region, base-activity, handling-height and pause series
\* are truncated to their common minimum length before they are combined, so
\* series of different lengths still give an activity export of min-length rows.
C23_UnequalLengthsGiveMinLengthRows ==
    (/\ ReportedPresent
     /\ \A i \in 1..Min(Len(ActivityIds), Len(HeightIds)) : ~Unmapped(i)
     /\ {Len(HeightIds), Len(RegionUuids), Len(PauseMask)} # {Len(ActivityIds)})
        => /\ load_raised = "none"
           /\ Len(returned.activity) = CommonRows

\* C24: a sample whose region uuid is not in the process's region table gets
\* the label 'Unknown Region' and raises nothing; a sample whose uuid is in the
\* table gets that region's name (uuid 10 is the region "Dock").
C24_UnknownRegionIsLabelled ==
    /\ (ReportedWhole /\ \A i \in 1..Len(ActivityIds) : ~Unmapped(i))
          => /\ load_raised = "none"
             /\ Len(returned.activity) = Len(RegionUuids)
    /\ (call.fn = "process_measurement" /\ call.found /\ load_raised = "none")
          => /\ \A i \in 1..Len(returned.activity) :
                   returned.activity[i].region =
                      IF RegionUuids[i] = 10 THEN "Dock" ELSE "Unknown Region"
             /\ \A b \in 1..Len(returned.beacons) :
                   \A j \in 1..Len(returned.beacons[b]) :
                      returned.beacons[b][j].region \in {"Dock", "Unknown Region"}

\* region 20 is not in the layout: its row is labelled, the other named
C24_Witness ==
    /\ ReportedWhole
    /\ load_raised = "none"
    /\ RegionUuids = <<10, 20>>
    /\ returned.activity[1].region = "Dock"
    /\ returned.activity[2].region = "Unknown Region"

(***************************************************************************)
(* Claims about get_api_all_measurement_files (SpecDownload).              *)
(***************************************************************************)
Downloaded == call.fn = "get_api_all_measurement_files"

AdvertisedSet == Range(available_measurement_files)

\* C26: with use_cache=True an advertised file that is already in the
\* directory is neither requested nor overwritten, and every advertised file
\* that is not there is requested; with use_cache=False every advertised file
\* is requested whatever the directory holds.
C26_CacheSkipsExistingFiles ==
    Downloaded
        => /\ call.use_cache
                => /\ Range(opened) = AdvertisedSet \ DOMAIN call.before
                   /\ \A f \in DOMAIN call.before :
                         f \in DOMAIN disk /\ disk[f] = call.before[f]
           /\ ~call.use_cache => opened = available_measurement_files

\* one advertised file cached, the other not: only the other is requested
C26_Witness ==
    /\ Downloaded
    /\ call.use_cache
    /\ available_measurement_files = <<RegionTsData, PauseData>>
    /\ DOMAIN call.before = {RegionTsData}
    /\ opened = <<PauseData>>
    /\ disk[RegionTsData] = "cached"

\* the advertised names from position k on that the call has to request:
\* all of them without the cache, otherwise those not in the directory
RECURSIVE Due(_, _)
Due(k, have) ==
    IF k > Len(available_measurement_files) THEN <<>>
    ELSE IF call.use_cache /\ available_measurement_files[k] \in have
    THEN Due(k + 1, have)
    ELSE <<available_measurement_files[k]>>
         \o Due(k + 1, IF available_measurement_files[k] \in call.failing THEN have
                       ELSE have \cup {available_measurement_files[k]})

\* C28: a failed fetch does not stop the download: every remaining advertised
\* file is still attempted, the failed fetch leaves no file of that name, and
\* the call returns without raising.
C28_FailedFetchDoesNotStopDownload ==
    (Downloaded /\ Range(opened) \cap call.failing # {})
        => /\ load_raised = "none"
           /\ opened = Due(1, DOMAIN call.before)
           /\ \A f \in call.failing :
                 /\ f \notin DOMAIN call.before => f \notin DOMAIN disk
                 /\ f \in DOMAIN call.before => disk[f] = call.before[f]
           /\ returned = SelectSeq(opened, LAMBDA f : f \in call.failing)

\* the first fetch fails, the second file is fetched all the same
C28_Witness ==
    /\ Downloaded
    /\ available_measurement_files = <<RegionTsData, PauseData>>
    /\ call.failing = {RegionTsData}
    /\ call.before = <<>>
    /\ opened = <<RegionTsData, PauseData>>
    /\ DOMAIN disk = {PauseData}
    /\ load_raised = "none"

(***************************************************************************)
(* Claims about the web service (SpecService).                             *)
(***************************************************************************)
Running == {m \in DOMAIN threads : threads[m] = "running"}

Attempted == Range(processing)

Failing(k) == ProcessOutcome[dirs[k]].raised # "none"

HasLogLine(k) == \E j \in DOMAIN batch_logs : batch_logs[j].measurement = k

\* C16: when process_measurement fails for one measurement, process_data
\* records the failure as a log line and goes on: the batch is never aborted
\* by a single measurement's failure.
C16_FailureIsLoggedAndBatchContinues ==
    \A k \in Attempted :
        Failing(k) => (pc.at # "aborted" /\ response # 500 /\ HasLogLine(k))

\* C18: at every moment of get_api_all_data at most 5 download threads are
\* running, however many complete measurements there are.
C18_AtMostFiveDownloadThreads == Cardinality(Running) <= 5

\* six complete measurements, five of their threads running at once
C18_Witness ==
    /\ Len(complete_measurements(measurements)) > 5
    /\ Cardinality(Running) = 5

\* the batch of a complete measurement: batches of five, in list order
Batch(m) == (Cardinality({j \in 1..m : measurements[j].is_complete}) - 1) \div 5

Started == {m \in DOMAIN threads : threads[m] # "none"}

DownloadReturned == pc.at \in {"downloaded", "process", "aborted", "returned"}

BatchBarrier ==
    /\ \A m \in Started :
          /\ measurements[m].is_complete
          /\ \A j \in 1..Len(measurements) :
                (measurements[j].is_complete /\ Batch(j) < Batch(m))
                    => threads[j] = "finished"
    /\ DownloadReturned
          => \A m \in DOMAIN threads :
                threads[m] = (IF measurements[m].is_complete THEN "finished" ELSE "none")

\* a thread is started once and ends once
OneThreadEach ==
    \A m \in DOMAIN threads :
        threads'[m] # threads[m]
            => \/ threads[m] = "none" /\ threads'[m] = "running"
               \/ threads[m] = "running" /\ threads'[m] = "finished"

\* C27: get_api_all_data downloads in batches with a barrier between them: no
\* thread of a later batch is started before every thread of the batch before
\* has ended, each complete measurement gets exactly one thread and an
\* incomplete one none, and the call returns only when every started thread
\* has ended.
C27_BatchesSeparatedByBarrier == []BatchBarrier /\ [][OneThreadEach]_vars

\* the sixth complete measurement is being downloaded, the first five are done
C27_Witness ==
    /\ pc.at \in {"start", "join"}
    /\ \E m \in Running :
          /\ Batch(m) = 1
          /\ \A j \in 1..Len(measurements) :
                measurements[j].is_complete /\ Batch(j) = 0 => threads[j] = "finished"

\* C19: process_measurement is called for a measurement only when every
\* advertised file of that measurement is on disk.
C19_ProcessedOnlyWithAllFilesOnDisk ==
    \A k \in Attempted : dirs[k] = Range(available_measurement_files)


\* ----------------------------------------------------------------------
\* Claims about the selection subscribers (SpecSubscribers)
\* ----------------------------------------------------------------------

\* the update calls that reached subscriber who in the last call
UpdatesOf(who) == {i \in DOMAIN notified : notified[i].who = who}

\* every subscriber in S was notified exactly once, with the value, by the
\* method, after the assignment; nobody else was notified
NotifiedExactly(S, method, value) ==
    /\ \A who \in S : Cardinality(UpdatesOf(who)) = 1
    /\ \A i \in DOMAIN notified :
        /\ notified[i].who \in S
        /\ notified[i].method = method
        /\ notified[i].value = value
        /\ notified[i].selected = value

SelectionNotifiesRegistered ==
    /\ last_op.op = "set_selected_process" =>
        /\ selected_process = last_op.who
        /\ NotifiedExactly(selected_process_subscribers, "update_selected_process", last_op.who)
    /\ last_op.op = "set_selected_measurement" =>
        /\ selected_measurement = last_op.who
        /\ NotifiedExactly(selected_measurement_subscribers, "update_selected_measurement", last_op.who)

\* what each call does to the two subscriber sets
RegistrationStep ==
    /\ last_op'.op = "register_selected_process" =>
        /\ last_op'.who \in selected_process_subscribers'
        /\ selected_process_subscribers' \ {last_op'.who} = selected_process_subscribers \ {last_op'.who}
        /\ last_op'.who \in selected_process_subscribers => selected_process_subscribers' = selected_process_subscribers
    /\ last_op'.op = "unregister_selected_process" =>
        /\ last_op'.who \notin selected_process_subscribers'
        /\ selected_process_subscribers' \ {last_op'.who} = selected_process_subscribers \ {last_op'.who}
        /\ last_op'.who \notin selected_process_subscribers => selected_process_subscribers' = selected_process_subscribers
    /\ last_op'.op = "register_selected_measurement" =>
        /\ last_op'.who \in selected_measurement_subscribers'
        /\ selected_measurement_subscribers' \ {last_op'.who} = selected_measurement_subscribers \ {last_op'.who}
        /\ last_op'.who \in selected_measurement_subscribers => selected_measurement_subscribers' = selected_measurement_subscribers
    /\ last_op'.op = "unregister_selected_measurement" =>
        /\ last_op'.who \notin selected_measurement_subscribers'
        /\ selected_measurement_subscribers' \ {last_op'.who} = selected_measurement_subscribers \ {last_op'.who}
        /\ last_op'.who \notin selected_measurement_subscribers => selected_measurement_subscribers' = selected_measurement_subscribers
    /\ last_op'.op \in {"set_selected_process", "set_selected_measurement"} =>
        /\ selected_process_subscribers' = selected_process_subscribers
        /\ selected_measurement_subscribers' = selected_measurement_subscribers

\* C29: after any sequence of register and unregister calls,
\* set_selected_process(p) (and likewise set_selected_measurement) sets the
\* selected value to p and then notifies each currently registered subscriber
\* exactly once with p and no unregistered subscriber; a register call adds
\* its subscriber and an unregister call removes it, so registering a
\* registered subscriber or unregistering an unknown one leaves the set
\* unchanged.
C29_SelectionNotifiesRegisteredOnce == []SelectionNotifiesRegistered /\ [][RegistrationStep]_vars

\* a selection made with two subscribers registered and a third one
\* unregistered before it
C29_Witness ==
    /\ last_op.op = "set_selected_process"
    /\ selected_process_subscribers = {"s1", "s2"}
    /\ Len(notified) = 2
    /\ selected_measurement_subscribers = {"s3"}


\* ----------------------------------------------------------------------
\* Claims about the CLI driver (SpecCli)
\* ----------------------------------------------------------------------

\* the uuids of the listing, in its order
ListedUuids == [k \in DOMAIN measurements_df.rows |-> measurements_df.rows[k].uuid]

\* the listing holds every measurement of the process once, newest first
ListingIsSorted ==
    measurements_df.listed =>
        /\ Len(measurements_df.rows) = Len(measurements)
        /\ \A k \in DOMAIN measurements : Cardinality({j \in DOMAIN ListedUuids : ListedUuids[j] = measurements[k].uuid}) = 1
        /\ \A i, j \in DOMAIN measurements_df.rows : i < j => measurements_df.rows[i].timestamp >= measurements_df.rows[j].timestamp

\* the turns taken are the listing's first rows, in the listing's order
AttemptedInOrder ==
    /\ Len(processing) <= Len(ListedUuids)
    /\ processing = SubSeq(ListedUuids, 1, Len(processing))
    /\ pc.at = "loop" /\ measurements_df.listed => Len(processing) = pc.i - 1
    /\ pc.at = "returned" => processing = ListedUuids

\* the lines of batch_logs about measurement uuid
LinesOf(uuid) == {batch_logs[j].line : j \in {j \in DOMAIN batch_logs : batch_logs[j].measurement = uuid}}

FailureLines == {"Error extracting data for measurement", "An error occurred", "An error occurred while extracting dynamic beacon data", "Required data file not found", "Error retrieving data"}

\* the turn of measurement uuid went through both extractions
Extracted(uuid) == {"Sensor raw data saved", "completed successfully"} \subseteq LinesOf(uuid)

\* every turn taken either extracted everything or left a failure line
FailuresAreLogged ==
    \A k \in DOMAIN processing :
        \/ Extracted(processing[k])
        \/ LinesOf(processing[k]) \cap FailureLines # {}

\* a turn whose directory lacks a needed pickle, or that has no selected
\* process, or whose frame cannot be built, cannot have extracted everything
FailuresAreNoticed ==
    \A k \in DOMAIN processing :
        (selected_process = None \/ dirs[processing[k]] # GoodDirectory)
            => LinesOf(processing[k]) \cap FailureLines # {}

\* the driver is listing, or in its loop with a turn or the return ahead, or
\* has returned what was printed; no exception has left it
RunsToReturn ==
    /\ pc.at \in {"list", "loop", "returned"}
    /\ pc.at = "loop" /\ measurements_df.listed => pc.i \in 1..(Len(measurements_df.rows) + 1)
    /\ pc.at = "returned" => response = StdoutOf(batch_logs)

\* C21: in the CLI driver extract_data every listed measurement is attempted
\* exactly once, in the listing's order; an exception raised while extracting
\* one measurement (a failed lookup, a failed load inside
\* extract_measurement_data or extract_dynamic_beacon_data) is logged and the
\* loop goes on with the next measurement; no exception leaves extract_data,
\* which returns the lines printed once every listed measurement had its turn.
C21_EveryMeasurementAttemptedOnceAndLogsReturned ==
    /\ ListingIsSorted
    /\ AttemptedInOrder
    /\ FailuresAreLogged
    /\ FailuresAreNoticed
    /\ RunsToReturn

\* the driver has returned after three turns: one whose lookup failed, one
\* whose beacon pickle was missing, one that extracted everything
C21_Witness ==
    /\ pc.at = "returned"
    /\ Len(processing) = 3
    /\ \E a, b, c \in DOMAIN processing :
        /\ a < b /\ b < c
        /\ LinesOf(processing[a]) = {"Error extracting data for measurement"}
        /\ "Required data file not found" \in LinesOf(processing[b])
        /\ Extracted(processing[c])

====
